---- MODULE Spec2Model ----
(***************************************************************************)
(* Temporal core of temporal_gantt: instants, calendar arithmetic (add,    *)
(* floor, diff), duration and instant parsing, token formatting, and the  *)
(* task store that loads raw task records through them.                    *)
(*                                                                         *)
(* An instant is an exact count of milliseconds since the epoch.  It is    *)
(* kept as the pair [d, ms] (whole days since 1970-01-01, millisecond of   *)
(* the day, 0 <= ms < 86400000): the same integer, written in two digits   *)
(* of base 86400000 so that no intermediate value exceeds 32 bits.         *)
(* Strings are sequences of one-character strings.                         *)
(***************************************************************************)
EXTENDS Integers, Sequences, FiniteSets, TLC

VARIABLES
    op,        \* the operation applied last ("init" before any)
    argA,      \* first instant argument (instantA of diff, instant of add/floor)
    argB,      \* second instant argument (instantB of diff)
    argQty,    \* qty of add
    argUnit,   \* scale of add / diff / floor
    out,       \* the instant returned by the operation
    out2,      \* the instant returned by the follow-up call on the result
    num,       \* the number returned by the operation (diff: hundredths)
    num2,      \* the number returned by the follow-up call
    argStr,    \* the string argument (or the string returned by format)
    tasks,     \* Tasks._tasks: the stored tasks, in order
    byId,      \* Tasks._byId: uid -> the task's position in tasks
    dependents, \* Tasks._dependents: uid -> the uids of the tasks depending on it
    rawTasks,  \* the raw task list handed to the last load
    loadRaised, \* whether the last load ended with an exception
    viewport,  \* the Viewport object: origin, columnWidth, stepInterval, stepUnit, msPerPixel
    gantt,     \* the Gantt object: options and config (view_mode, step)
    today,     \* the wall-clock date, Temporal.Now.plainDateISO()
    opts,      \* the remaining arguments and the local variables of the call in progress
    bars,      \* Bars: the $bar of every task, in task order (x, width, ox, owidth, finaldx)
    dragState, \* Bars._dragState
    dragging,  \* Bars.dragging: "null", "false" or "true"
    calls      \* the commits and the events since the last mousedown, in order

calVars == <<op, argA, argB, argQty, argUnit, out, out2, num, num2>>

storeVars == <<tasks, byId, dependents, rawTasks, loadRaised>>

uiVars == <<viewport, gantt, today, opts>>

dragVars == <<bars, dragState, dragging, calls>>

vars == <<op, argA, argB, argQty, argUnit, out, out2, num, num2, argStr,
          tasks, byId, dependents, rawTasks, loadRaised,
          viewport, gantt, today, opts,
          bars, dragState, dragging, calls>>

----------------------------------------------------------------------------
(* Units of time *)

MS_PER_SECOND == 1000
MS_PER_MINUTE == 60000
MS_PER_HOUR == 3600000
MS_PER_DAY == 86400000

Units == {"year", "month", "week", "day", "hour", "minute", "second", "millisecond"}
FixedUnits == {"day", "hour", "minute", "second", "millisecond"}

\* the length of a fixed-length unit in milliseconds
UnitMs(unit) ==
    CASE unit = "week" -> 7 * MS_PER_DAY
      [] unit = "day" -> MS_PER_DAY
      [] unit = "hour" -> MS_PER_HOUR
      [] unit = "minute" -> MS_PER_MINUTE
      [] unit = "second" -> MS_PER_SECOND
      [] unit = "millisecond" -> 1

Null == [null |-> TRUE]
Raised == [raised |-> TRUE]

Abs(x) == IF x < 0 THEN -x ELSE x
Sign(x) == IF x < 0 THEN -1 ELSE IF x > 0 THEN 1 ELSE 0
Min(x, y) == IF x <= y THEN x ELSE y

----------------------------------------------------------------------------
(* Temporal.Instant and Temporal.PlainDateTime (ISO calendar, UTC) *)

Inst(d, ms) == [d |-> d, ms |-> ms]

\* Temporal.Instant.compare
InstantCompare(a, b) ==
    IF a.d # b.d THEN Sign(a.d - b.d) ELSE Sign(a.ms - b.ms)

IsLeapYear(y) == (y % 4 = 0) /\ ((y % 100 # 0) \/ (y % 400 = 0))

ISODaysInMonth(y, m) ==
    IF m \in {4, 6, 9, 11} THEN 30
    ELSE IF m = 2 THEN (IF IsLeapYear(y) THEN 29 ELSE 28)
    ELSE 31

\* days since 1970-01-01 of a proleptic Gregorian date
EpochDays(y, m, d) ==
    LET yy  == IF m <= 2 THEN y - 1 ELSE y
        era == yy \div 400
        yoe == yy - era * 400
        mp  == (m + 9) % 12
        doy == (153 * mp + 2) \div 5 + d - 1
        doe == yoe * 365 + yoe \div 4 - yoe \div 100 + doy
    IN  era * 146097 + doe - 719468

\* the proleptic Gregorian date of a day number
ISODateOfEpochDays(z0) ==
    LET z   == z0 + 719468
        era == z \div 146097
        doe == z - era * 146097
        yoe == (doe - doe \div 1460 + doe \div 36524 - doe \div 146096) \div 365
        doy == doe - (365 * yoe + yoe \div 4 - yoe \div 100)
        mp  == (5 * doy + 2) \div 153
        dd  == doy - (153 * mp + 2) \div 5 + 1
        mm  == IF mp < 10 THEN mp + 3 ELSE mp - 9
        yy  == yoe + era * 400 + (IF mm <= 2 THEN 1 ELSE 0)
    IN  [year |-> yy, month |-> mm, day |-> dd]

\* PlainDateTime.dayOfWeek: 1 = Monday .. 7 = Sunday (1970-01-01 is a Thursday)
DayOfWeek(epochDay) == ((epochDay + 3) % 7) + 1

PDT(y, mo, d, h, mi, s, ms) ==
    [year |-> y, month |-> mo, day |-> d,
     hour |-> h, minute |-> mi, second |-> s, millisecond |-> ms]

TimeOfDayMs(pdt) ==
    pdt.hour * MS_PER_HOUR + pdt.minute * MS_PER_MINUTE
        + pdt.second * MS_PER_SECOND + pdt.millisecond

\* instant.toZonedDateTimeISO('UTC').toPlainDateTime()
toPlainDateTime(instant) ==
    LET date == ISODateOfEpochDays(instant.d)
    IN  PDT(date.year, date.month, date.day,
            instant.ms \div MS_PER_HOUR,
            (instant.ms % MS_PER_HOUR) \div MS_PER_MINUTE,
            (instant.ms % MS_PER_MINUTE) \div MS_PER_SECOND,
            instant.ms % MS_PER_SECOND)

\* pdt.toZonedDateTime('UTC').toInstant()
toInstant(pdt) ==
    Inst(EpochDays(pdt.year, pdt.month, pdt.day), TimeOfDayMs(pdt))

\* an instant moved by a number of days and a (signed) number of milliseconds
ShiftInstant(instant, days, deltaMs) ==
    LET t == instant.ms + deltaMs
    IN  Inst(instant.d + days + t \div MS_PER_DAY, t % MS_PER_DAY)

\* BalanceISOYearMonth: month brought back into 1..12, carrying into the year
BalanceISOYearMonth(y, m) ==
    [year |-> y + (m - 1) \div 12, month |-> ((m - 1) % 12) + 1]

\* RegulateISODate with overflow 'constrain': the day clamped to the month
ConstrainDay(y, m, d) == Min(d, ISODaysInMonth(y, m))

----------------------------------------------------------------------------
(* add: pdt.add(Temporal.Duration.from({ [scale + 's']: qty })), which    *)
(* Temporal evaluates with overflow 'constrain'.                          *)

\* CalendarDateAdd: years and months first, the day constrained to the
\* resulting month, then weeks and days
CalendarDateAdd(date, years, months, weeks, days) ==
    LET ym == BalanceISOYearMonth(date.year + years, date.month + months)
        dd == ConstrainDay(ym.year, ym.month, date.day)
    IN  ISODateOfEpochDays(EpochDays(ym.year, ym.month, dd) + 7 * weeks + days)

PlainDateTimeAdd(pdt, qty, scale) ==
    IF scale \in {"year", "month", "week", "day"}
    THEN LET date == CalendarDateAdd(pdt,
                        IF scale = "year" THEN qty ELSE 0,
                        IF scale = "month" THEN qty ELSE 0,
                        IF scale = "week" THEN qty ELSE 0,
                        IF scale = "day" THEN qty ELSE 0)
         IN  [pdt EXCEPT !.year = date.year, !.month = date.month, !.day = date.day]
    ELSE toPlainDateTime(ShiftInstant(toInstant(pdt), 0, qty * UnitMs(scale)))

add(instant, qty, scale) ==
    toInstant(PlainDateTimeAdd(toPlainDateTime(instant), qty, scale))

----------------------------------------------------------------------------
(* floor: the start of the unit containing the instant *)

\* a week that starts on Sunday instead of Monday
DaysToSubtract_fromSunday(dayOfWeek) == dayOfWeek % 7

\* const daysToSubtract = dayOfWeek - 1 (Monday is the first day)
DaysToSubtract(dayOfWeek) == dayOfWeek - 1

floor(instant, scale) ==
    LET pdt == toPlainDateTime(instant)
        truncated ==
            CASE scale = "year" ->
                    [pdt EXCEPT !.month = 1, !.day = 1, !.hour = 0, !.minute = 0,
                                !.second = 0, !.millisecond = 0]
              [] scale = "month" ->
                    [pdt EXCEPT !.day = 1, !.hour = 0, !.minute = 0,
                                !.second = 0, !.millisecond = 0]
              [] scale = "week" ->
                    LET dayOfWeek == DayOfWeek(instant.d)
                        daysToSubtract == DaysToSubtract(dayOfWeek)
                        back == PlainDateTimeAdd(pdt, -daysToSubtract, "day")
                    IN  [back EXCEPT !.hour = 0, !.minute = 0,
                                     !.second = 0, !.millisecond = 0]
              [] scale = "day" ->
                    [pdt EXCEPT !.hour = 0, !.minute = 0,
                                !.second = 0, !.millisecond = 0]
              [] scale = "hour" ->
                    [pdt EXCEPT !.minute = 0, !.second = 0, !.millisecond = 0]
              [] scale = "minute" ->
                    [pdt EXCEPT !.second = 0, !.millisecond = 0]
              [] scale = "second" ->
                    [pdt EXCEPT !.millisecond = 0]
              [] OTHER -> pdt
    IN  toInstant(truncated)

----------------------------------------------------------------------------
(* diff: pdtA.since(pdtB, { largestUnit }) followed by                     *)
(* duration.total({ unit, relativeTo: pdtB }), rounded to 2 decimals.      *)
(* A duration is [years, months, weeks, days, ms], all of one sign, with   *)
(* |ms| < MS_PER_DAY (its time part is days * 24 h + ms).                  *)

Duration(y, mo, w, d, ms) ==
    [years |-> y, months |-> mo, weeks |-> w, days |-> d, ms |-> ms]

NegateDuration(D) == Duration(-D.years, -D.months, -D.weeks, -D.days, -D.ms)

DurationSign(D) ==
    IF D.years # 0 THEN Sign(D.years)
    ELSE IF D.months # 0 THEN Sign(D.months)
    ELSE IF D.weeks # 0 THEN Sign(D.weeks)
    ELSE IF D.days # 0 THEN Sign(D.days)
    ELSE Sign(D.ms)

CompareISODate(one, two) ==
    IF one.year # two.year THEN Sign(one.year - two.year)
    ELSE IF one.month # two.month THEN Sign(one.month - two.month)
    ELSE Sign(one.day - two.day)

\* ISODateSurpasses: has the candidate (y, m, d) passed date two, going in
\* the direction of sign?  The day is compared as written, not constrained.
ISODateSurpasses(sign, y, m, d, two) ==
    IF y # two.year THEN sign * (y - two.year) > 0
    ELSE IF m # two.month THEN sign * (m - two.month) > 0
    ELSE IF d # two.day THEN sign * (d - two.day) > 0
    ELSE FALSE

\* the largest count of whole years from date one that does not pass two
RECURSIVE UntilYears(_, _, _, _)
UntilYears(sign, one, two, candidate) ==
    IF ISODateSurpasses(sign, one.year + candidate, one.month, one.day, two)
    THEN candidate - sign
    ELSE UntilYears(sign, one, two, candidate + sign)

\* the largest count of whole months from (one + years) that does not pass two
RECURSIVE UntilMonths(_, _, _, _, _)
UntilMonths(sign, one, two, years, candidate) ==
    LET ym == BalanceISOYearMonth(one.year + years, one.month + candidate)
    IN  IF ISODateSurpasses(sign, ym.year, ym.month, one.day, two)
        THEN candidate - sign
        ELSE UntilMonths(sign, one, two, years, candidate + sign)

\* CalendarDateUntil of the ISO calendar, anchored at date one
CalendarDateUntil(one, two, largestUnit) ==
    LET sign == -CompareISODate(one, two)
    IN  IF sign = 0 THEN Duration(0, 0, 0, 0, 0)
        ELSE
        LET years  == IF largestUnit = "year"
                      THEN UntilYears(sign, one, two, sign) ELSE 0
            months == IF largestUnit \in {"year", "month"}
                      THEN UntilMonths(sign, one, two, years, sign) ELSE 0
            ym     == BalanceISOYearMonth(one.year + years, one.month + months)
            cday   == ConstrainDay(ym.year, ym.month, one.day)
            rest   == EpochDays(two.year, two.month, two.day)
                        - EpochDays(ym.year, ym.month, cday)
            weeks  == IF largestUnit = "week"
                      THEN sign * (Abs(rest) \div 7) ELSE 0
        IN  Duration(years, months, weeks, rest - 7 * weeks, 0)

\* DifferenceISODateTime(dt1, dt2): the duration from dt1 to dt2; when the
\* time difference runs against the date difference, one day is moved from
\* the date part into the time part
DifferenceISODateTime(dt1, dt2, largestUnit) ==
    LET timeMs   == TimeOfDayMs(dt2) - TimeOfDayMs(dt1)
        timeSign == Sign(timeMs)
        dateSign == CompareISODate(dt1, dt2)
        adjust   == timeSign # 0 /\ timeSign = dateSign
        date2    == IF adjust
                    THEN ISODateOfEpochDays(
                            EpochDays(dt2.year, dt2.month, dt2.day) + timeSign)
                    ELSE [year |-> dt2.year, month |-> dt2.month, day |-> dt2.day]
        time     == IF adjust THEN timeMs - timeSign * MS_PER_DAY ELSE timeMs
        dateLargestUnit ==
                    IF largestUnit \in {"year", "month", "week"}
                    THEN largestUnit ELSE "day"
        dd       == CalendarDateUntil(dt1, date2, dateLargestUnit)
    IN  [dd EXCEPT !.ms = time]

\* pdtA.since(pdtB, { largestUnit }): the difference is taken from pdtA to
\* pdtB (anchored at pdtA) and negated
PlainDateTimeSince(pdtA, pdtB, largestUnit) ==
    NegateDuration(DifferenceISODateTime(pdtA, pdtB, largestUnit))

\* floor((2n + d) / 2d): Math.round of the exact ratio n / d, d > 0
\* (Math.round rounds a tie towards +Infinity)
RoundHalfUpDiv(n, d) == n \div d + (IF 2 * (n % d) >= d THEN 1 ELSE 0)

\* Math.round(100 * (nd days + nms ms) / (dd days)), the numerator given as
\* whole days and 0 <= nms < MS_PER_DAY; evaluated piecewise so that no
\* intermediate exceeds 32 bits
Round100Days(nd, nms, dd) ==
    LET q == (100 * nd) \div dd
        r == (100 * nd) % dd
    IN  q + RoundHalfUpDiv(r * (MS_PER_DAY \div 100) + nms,
                           dd * (MS_PER_DAY \div 100))

\* Math.round(100 * (nd days + nms ms) / unitMs) for a fixed-length unit
Round100Ratio(nd, nms, unitMs) ==
    IF unitMs % MS_PER_DAY = 0
    THEN Round100Days(nd, nms, unitMs \div MS_PER_DAY)
    ELSE IF unitMs % 100 = 0
    THEN nd * (MS_PER_DAY \div (unitMs \div 100))
            + RoundHalfUpDiv(nms, unitMs \div 100)
    ELSE 100 * ((nd * MS_PER_DAY + nms) \div unitMs)

\* the time part of a duration as whole days and 0 <= ms < MS_PER_DAY
DurationDays(D) == D.days + D.ms \div MS_PER_DAY
DurationMs(D) == D.ms % MS_PER_DAY

EpochDaysOf(date) == EpochDays(date.year, date.month, date.day)

\* NudgeToCalendarUnit: r1 whole units plus the fraction of the calendar
\* span from (relDate + r1 units) to (relDate + r1 + sign units) that the
\* destination covers, times 100 and rounded by Math.round
SpanTotal100(r1, startDay, endDay, destDay, destMs) ==
    100 * r1 + Round100Days(destDay - startDay, destMs, Abs(endDay - startDay))

NudgeTotal100(relDate, again, unit, destDay, destMs) ==
    LET sign == IF DurationSign(again) < 0 THEN -1 ELSE 1
        r1   == IF unit = "year" THEN again.years ELSE again.months
    IN  IF unit = "year"
        THEN SpanTotal100(r1,
                EpochDaysOf(CalendarDateAdd(relDate, r1, 0, 0, 0)),
                EpochDaysOf(CalendarDateAdd(relDate, r1 + sign, 0, 0, 0)),
                destDay, destMs)
        ELSE SpanTotal100(r1,
                EpochDaysOf(CalendarDateAdd(relDate, 0, r1, 0, 0)),
                EpochDaysOf(CalendarDateAdd(relDate, 0, r1 + sign, 0, 0)),
                destDay, destMs)

\* the duration re-measured from relDate at midnight to the destination
CalendarTotal100(relDate, unit, destDay, destMs) ==
    NudgeTotal100(relDate,
        DifferenceISODateTime(
            PDT(relDate.year, relDate.month, relDate.day, 0, 0, 0, 0),
            toPlainDateTime(Inst(destDay, destMs)), unit),
        unit, destDay, destMs)

\* Math.round(duration.total({ unit, relativeTo }) * 100): a fixed-length
\* unit is the plain ratio of milliseconds; for a calendar unit the
\* duration is added to the date of relativeTo (its time of day is dropped)
\* and re-measured from there
DurationTotal100(D, unit, relativeTo) ==
    IF unit \notin {"year", "month"}
    THEN Round100Ratio(7 * D.weeks + DurationDays(D), DurationMs(D), UnitMs(unit))
    ELSE CalendarTotal100(relativeTo, unit,
            EpochDaysOf(CalendarDateAdd(relativeTo, D.years, D.months, D.weeks,
                                        DurationDays(D))),
            DurationMs(D))

\* a month difference taken as milliseconds over a fixed month of 30 days
diff_fixedMonth(instantA, instantB, scale) ==
    IF scale = "month"
    THEN Round100Days(instantA.d - instantB.d + (instantA.ms - instantB.ms) \div MS_PER_DAY,
                      (instantA.ms - instantB.ms) % MS_PER_DAY, 30)
    ELSE DurationTotal100(
            PlainDateTimeSince(toPlainDateTime(instantA), toPlainDateTime(instantB), scale),
            scale, toPlainDateTime(instantB))

\* diff, as an integer count of hundredths: diff(a, b, scale) = diff100 / 100
diff(instantA, instantB, scale) ==
    LET pdtA == toPlainDateTime(instantA)
        pdtB == toPlainDateTime(instantB)
        duration == PlainDateTimeSince(pdtA, pdtB, scale)
    IN  DurationTotal100(duration, scale, pdtB)

----------------------------------------------------------------------------
(* Strings: sequences of one-character strings *)

DigitChars == <<"0", "1", "2", "3", "4", "5", "6", "7", "8", "9">>
Digits == {DigitChars[i] : i \in 1 .. 10}

DigitVal(c) == (CHOOSE i \in 1 .. 10 : DigitChars[i] = c) - 1

IsDigits(s) == \A i \in 1 .. Len(s) : s[i] \in Digits

\* the value of a string of decimal digits (0 for the empty string)
RECURSIVE ParseDigits(_)
ParseDigits(s) ==
    IF s = <<>> THEN 0
    ELSE ParseDigits(SubSeq(s, 1, Len(s) - 1)) * 10 + DigitVal(s[Len(s)])

\* String(n) for an integer n
RECURSIVE NatToString(_)
NatToString(n) ==
    IF n < 10 THEN <<DigitChars[n + 1]>>
    ELSE Append(NatToString(n \div 10), DigitChars[(n % 10) + 1])

IntToString(n) == IF n < 0 THEN <<"-">> \o NatToString(-n) ELSE NatToString(n)

\* str.padStart(width, '0')
RECURSIVE PadStart(_, _)
PadStart(s, width) == IF Len(s) >= width THEN s ELSE PadStart(<<"0">> \o s, width)

Includes(s, c) == \E i \in 1 .. Len(s) : s[i] = c

\* index of the first character of s that is in set cs, 0 if none
FirstIndexIn(s, cs) ==
    IF \E i \in 1 .. Len(s) : s[i] \in cs
    THEN CHOOSE i \in 1 .. Len(s) : s[i] \in cs /\ \A j \in 1 .. i - 1 : s[j] \notin cs
    ELSE 0

\* str.split(separator): the pieces between the characters of set cs
RECURSIVE Split(_, _)
Split(s, cs) ==
    IF FirstIndexIn(s, cs) = 0 THEN <<s>>
    ELSE <<SubSeq(s, 1, FirstIndexIn(s, cs) - 1)>>
            \o Split(SubSeq(s, FirstIndexIn(s, cs) + 1, Len(s)), cs)

\* str.trim() (the only white space of the alphabet is the blank)
RECURSIVE Trim(_)
Trim(s) ==
    IF s # <<>> /\ s[1] = " " THEN Trim(Tail(s))
    ELSE IF s # <<>> /\ s[Len(s)] = " " THEN Trim(SubSeq(s, 1, Len(s) - 1))
    ELSE s

\* str.replace(' ', 'T'): the first blank only
ReplaceFirstBlank(s) ==
    IF FirstIndexIn(s, {" "}) = 0 THEN s
    ELSE [s EXCEPT ![FirstIndexIn(s, {" "})] = "T"]

\* Number(str) on the alphabet of the model: the empty (or blank) string is
\* 0, a string of digits is its value, anything else is NaN
Num(isNaN, val) == [nan |-> isNaN, val |-> val]
NumberOf(s) ==
    IF Trim(s) = <<>> THEN Num(FALSE, 0)
    ELSE IF IsDigits(Trim(s)) THEN Num(FALSE, ParseDigits(Trim(s)))
    ELSE Num(TRUE, 0)

\* parts[i] of an array, undefined (NaN under ||) beyond its end
NumberAt(tokens, i) ==
    IF i <= Len(tokens) THEN NumberOf(tokens[i]) ELSE Num(TRUE, 0)

\* x || dflt for a number x: NaN and 0 are falsy
OrDefault(x, dflt) == IF x.nan \/ x.val = 0 THEN dflt ELSE x.val

----------------------------------------------------------------------------
(* parseDuration and parseDurationString *)

\* the length of the longest prefix of digits of s
RECURSIVE DigitPrefixLen(_)
DigitPrefixLen(s) ==
    IF s # <<>> /\ s[1] \in Digits THEN 1 + DigitPrefixLen(Tail(s)) ELSE 0

UnitTokens ==
    { <<"y">>, <<"m", "o">>, <<"m">>, <<"w">>, <<"d">>, <<"h">>,
      <<"m", "i", "n">>, <<"s">>, <<"m", "s">> }

\* durationStr.match(/^(\d+)(y|mo|m|w|d|h|min|s|ms)$/): no unit token
\* starts with a digit, so a match takes all leading digits as group 1 and
\* needs the rest of the string to be one of the alternatives
DurationRegexMatch(s) ==
    LET n == DigitPrefixLen(s)
    IN  IF n >= 1 /\ SubSeq(s, n + 1, Len(s)) \in UnitTokens
        THEN [matched |-> TRUE, digits |-> SubSeq(s, 1, n),
              unit |-> SubSeq(s, n + 1, Len(s))]
        ELSE [matched |-> FALSE, digits |-> <<>>, unit |-> <<>>]

\* a unit map that reads 'm' as minutes
UnitMap_mAsMinute(abbrev) ==
    CASE abbrev = <<"y">> -> "year"
      [] abbrev = <<"m", "o">> -> "month"
      [] abbrev = <<"m">> -> "minute"
      [] abbrev = <<"w">> -> "week"
      [] abbrev = <<"d">> -> "day"
      [] abbrev = <<"h">> -> "hour"
      [] abbrev = <<"m", "i", "n">> -> "minute"
      [] abbrev = <<"s">> -> "second"
      [] abbrev = <<"m", "s">> -> "millisecond"
      [] OTHER -> "day"

\* unitMap of parseDurationString and of parseDuration
UnitMap(abbrev) ==
    CASE abbrev = <<"y">> -> "year"
      [] abbrev = <<"m", "o">> -> "month"
      [] abbrev = <<"m">> -> "month"
      [] abbrev = <<"w">> -> "week"
      [] abbrev = <<"d">> -> "day"
      [] abbrev = <<"h">> -> "hour"
      [] abbrev = <<"m", "i", "n">> -> "minute"
      [] abbrev = <<"s">> -> "second"
      [] abbrev = <<"m", "s">> -> "millisecond"
      [] OTHER -> "day"

\* { value, unit }
DurationSpec(value, unit) == [value |-> value, unit |-> unit]

parseDurationStringOf(m) ==
    IF ~m.matched THEN DurationSpec(1, "day")
    ELSE DurationSpec(ParseDigits(m.digits), UnitMap(m.unit))

parseDurationString(durationStr) ==
    parseDurationStringOf(DurationRegexMatch(durationStr))

\* Temporal.Duration.from({ [unit + 's']: value }): a count per unit
TemporalDurationFrom(unit, value) ==
    [u \in Units |-> IF u = unit THEN value ELSE 0]

\* unitMap of parseDuration (keyed by the plural unit names)
parseDurationOf(m) ==
    IF ~m.matched THEN TemporalDurationFrom("day", 1)
    ELSE TemporalDurationFrom(UnitMap(m.unit), ParseDigits(m.digits))

parseDuration(durationStr) ==
    parseDurationOf(DurationRegexMatch(durationStr))

----------------------------------------------------------------------------
(* parseInstant for string input *)

TwoDigits(s) == Len(s) = 2 /\ IsDigits(s)

\* the date of an ISO 8601 string in extended format: YYYY-MM-DD naming a
\* day that exists
IsISODate(s) ==
    /\ Len(s) = 10
    /\ s[5] = "-" /\ s[8] = "-"
    /\ IsDigits(SubSeq(s, 1, 4))
    /\ TwoDigits(SubSeq(s, 6, 7)) /\ TwoDigits(SubSeq(s, 9, 10))
    /\ ParseDigits(SubSeq(s, 6, 7)) \in 1 .. 12
    /\ ParseDigits(SubSeq(s, 9, 10)) \in
           1 .. ISODaysInMonth(ParseDigits(SubSeq(s, 1, 4)), ParseDigits(SubSeq(s, 6, 7)))

\* seconds with an optional fraction of 1 to 9 digits: SS or SS.f
IsISOSeconds(pieces) ==
    /\ Len(pieces) \in 1 .. 2
    /\ TwoDigits(pieces[1]) /\ ParseDigits(pieces[1]) <= 60
    /\ Len(pieces) = 2 => IsDigits(pieces[2]) /\ Len(pieces[2]) \in 1 .. 9

\* the time of an ISO 8601 string in extended format: HH, HH:MM, HH:MM:SS
\* or HH:MM:SS.f
IsISOTimeOf(hms) ==
    /\ Len(hms) \in 1 .. 3
    /\ TwoDigits(hms[1]) /\ ParseDigits(hms[1]) <= 23
    /\ Len(hms) >= 2 => TwoDigits(hms[2]) /\ ParseDigits(hms[2]) <= 59
    /\ Len(hms) = 3 => IsISOSeconds(Split(hms[3], {"."}))

IsISOTime(s) == IsISOTimeOf(Split(s, {":"}))

\* the milliseconds of a fraction of a second (digits beyond the third are
\* below the precision of an instant of the model)
FractionMs(frac) == ParseDigits(SubSeq(frac \o <<"0", "0">>, 1, 3))

ISOSecondsMs(pieces) ==
    Min(ParseDigits(pieces[1]), 59) * MS_PER_SECOND
        + (IF Len(pieces) = 2 THEN FractionMs(pieces[2]) ELSE 0)

ISOTimeMsOf(hms) ==
    ParseDigits(hms[1]) * MS_PER_HOUR
        + (IF Len(hms) >= 2 THEN ParseDigits(hms[2]) * MS_PER_MINUTE ELSE 0)
        + (IF Len(hms) = 3 THEN ISOSecondsMs(Split(hms[3], {"."})) ELSE 0)

ISOTimeMs(s) == ISOTimeMsOf(Split(s, {":"}))

ISODateDays(s) ==
    EpochDays(ParseDigits(SubSeq(s, 1, 4)), ParseDigits(SubSeq(s, 6, 7)),
              ParseDigits(SubSeq(s, 9, 10)))

\* date 'T' time, split at the first 'T'
ISODateTimeAt(s, t) ==
    IF t > 0 /\ IsISODate(SubSeq(s, 1, t - 1)) /\ IsISOTime(SubSeq(s, t + 1, Len(s)))
    THEN Inst(ISODateDays(SubSeq(s, 1, t - 1)), ISOTimeMs(SubSeq(s, t + 1, Len(s))))
    ELSE Raised

\* Temporal.PlainDateTime.from(string) followed by toInstant: a string that
\* is not an ISO 8601 date-time, or that carries a 'Z', raises RangeError
PlainDateTimeFromString(s) ==
    IF Includes(s, "Z") THEN Raised
    ELSE ISODateTimeAt(s, FirstIndexIn(s, {"T"}))

\* /[+-]\d{2}:\d{2}$/.test(str)
EndsWithOffset(s) ==
    /\ Len(s) >= 6
    /\ s[Len(s) - 5] \in {"+", "-"}
    /\ TwoDigits(SubSeq(s, Len(s) - 4, Len(s) - 3))
    /\ s[Len(s) - 2] = ":"
    /\ TwoDigits(SubSeq(s, Len(s) - 1, Len(s)))

\* the UTC offset +HH:MM or -HH:MM in milliseconds
OffsetMs(o) ==
    (IF o[1] = "-" THEN -1 ELSE 1)
        * (ParseDigits(SubSeq(o, 2, 3)) * MS_PER_HOUR
             + ParseDigits(SubSeq(o, 5, 6)) * MS_PER_MINUTE)

IsOffset(o) == ParseDigits(SubSeq(o, 2, 3)) <= 23 /\ ParseDigits(SubSeq(o, 5, 6)) <= 59

\* Temporal.Instant.from(string) for a date-time with a numeric offset: the
\* local date-time moved back by the offset
InstantFromOffsetString(local, o) ==
    IF local = Raised \/ ~IsOffset(o) THEN Raised
    ELSE ShiftInstant(local, 0, -OffsetMs(o))

\* Temporal.Instant.from(string)
InstantFromString(s) ==
    IF EndsWithOffset(s)
    THEN InstantFromOffsetString(
             PlainDateTimeFromString(SubSeq(s, 1, Len(s) - 6)),
             SubSeq(s, Len(s) - 5, Len(s)))
    ELSE IF s # <<>> /\ s[Len(s)] = "Z"
    THEN ISODateTimeAt(SubSeq(s, 1, Len(s) - 1),
                       FirstIndexIn(SubSeq(s, 1, Len(s) - 1), {"T"}))
    ELSE Raised

\* the try block of parseInstant; Raised stands for the exception it catches
TryISO(normalized) ==
    IF (normalized # <<>> /\ normalized[Len(normalized)] = "Z") \/ EndsWithOffset(normalized)
    THEN InstantFromString(normalized)
    ELSE PlainDateTimeFromString(normalized)

\* Temporal.PlainDateTime.from({ year, month, ... }) followed by toInstant:
\* a NaN field raises RangeError, as does a year outside the supported
\* range; the other fields are constrained to their ranges
PlainDateTimeFromFields(year, month, day, hour, minute, second, millisecond) ==
    IF year.nan \/ year.val > 275760 THEN Raised
    ELSE toInstant(PDT(year.val, Min(month, 12),
                       ConstrainDay(year.val, Min(month, 12), day),
                       Min(hour, 23), Min(minute, 59), Min(second, 59),
                       Min(millisecond, 999)))

\* the manual parsing of parseInstant
ManualParseOf(dateParts, timeParts) ==
    PlainDateTimeFromFields(
        NumberAt(dateParts, 1),
        OrDefault(NumberAt(dateParts, 2), 1),
        OrDefault(NumberAt(dateParts, 3), 1),
        OrDefault(NumberAt(timeParts, 1), 0),
        OrDefault(NumberAt(timeParts, 2), 0),
        OrDefault(NumberAt(timeParts, 3), 0),
        OrDefault(NumberAt(timeParts, 4), 0))

ManualParse(parts) ==
    ManualParseOf(
        Split(parts[1], {"-"}),
        IF Len(parts) >= 2 /\ Trim(parts[2]) # <<>>
        THEN Split(parts[2], {".", ":"}) ELSE <<>>)

parseInstantOf(trimmed, iso) ==
    IF iso # Raised THEN iso ELSE ManualParse(Split(trimmed, {" "}))

parseInstantNormalized(trimmed, normalized) ==
    parseInstantOf(trimmed,
        IF Includes(normalized, "T") \/ Includes(normalized, "Z")
        THEN TryISO(normalized) ELSE Raised)

parseInstant(input) ==
    parseInstantNormalized(Trim(input), ReplaceFirstBlank(Trim(input)))

----------------------------------------------------------------------------
(* format with the default template 'YYYY-MM-DD HH:mm:ss.SSS' *)

\* String(n).padStart(width, '0')
Padded(n, width) == PadStart(IntToString(n), width)

\* the template holds each of YYYY, SSS, MM, DD, HH, mm, ss once; the first
\* pass turns it into '$0-$2-$3 $4:$5:$6.$1' and the second puts the values
\* of formatMap in place of the placeholders
formatOf(pdt) ==
    IntToString(pdt.year) \o <<"-">> \o Padded(pdt.month, 2) \o <<"-">>
        \o Padded(pdt.day, 2) \o <<" ">> \o Padded(pdt.hour, 2) \o <<":">>
        \o Padded(pdt.minute, 2) \o <<":">> \o Padded(pdt.second, 2) \o <<".">>
        \o Padded(pdt.millisecond, 3)

format(instant) == formatOf(toPlainDateTime(instant))

----------------------------------------------------------------------------
(* Tasks: the task store *)

\* str.replaceAll(' ', '_')
ReplaceAllBlanks(str) ==
    [i \in 1 .. Len(str) |-> IF str[i] = " " THEN "_" ELSE str[i]]

IsNonEmpty(str) == str # <<>>

\* rawTask.dependencies (an array of strings): trimmed, blanks replaced,
\* empty entries dropped
ParseDependencies(deps) ==
    SelectSeq([i \in 1 .. Len(deps) |-> ReplaceAllBlanks(Trim(deps[i]))], IsNonEmpty)

\* data.end and data.duration while _parseTask runs (hasEnd: data.end is
\* set; a duration that was never assigned is kept as 0)
TaskEnd(hasEnd, end, duration) ==
    [hasEnd |-> hasEnd, end |-> end, duration |-> duration]

\* the body of the forEach over rawTask.duration.split(' '): data.end and
\* data.duration are assigned from data.start
DurationStep(start, spec) ==
    TaskEnd(TRUE, add(start, spec.value, spec.unit),
            diff(add(start, spec.value, spec.unit), start, "day"))

\* the body run on the data the previous iterations left
DurationStepAfter(data, start, spec) ==
    [data EXCEPT !.hasEnd = TRUE,
                 !.end = DurationStep(start, spec).end,
                 !.duration = DurationStep(start, spec).duration]

\* data after the first n iterations of the forEach
RECURSIVE ApplyDurations(_, _, _)
ApplyDurations(tokens, start, n) ==
    IF n = 0 THEN TaskEnd(FALSE, Null, 0)
    ELSE IF n = 1 THEN DurationStep(start, parseDurationString(tokens[n]))
    ELSE DurationStepAfter(ApplyDurations(tokens, start, n - 1), start,
                           parseDurationString(tokens[n]))

\* new Task(data)
Task(uid, index, start, end, duration, dependencies) ==
    [uid |-> uid, index |-> index, start |-> start, end |-> end,
     duration |-> duration, dependencies |-> dependencies]

\* an end at midnight stands for the whole day
IsMidnight(pdt) ==
    pdt.hour = 0 /\ pdt.minute = 0 /\ pdt.second = 0 /\ pdt.millisecond = 0

FullDayEnd(end) ==
    IF IsMidnight(toPlainDateTime(end)) THEN add(end, 24, "hour") ELSE end

\* _parseTask from the validation of the end on
ValidateTask(rawTask, index, start, data) ==
    IF ~data.hasEnd THEN Null
    ELSE IF InstantCompare(data.end, start) < 0 THEN Null
    ELSE IF diff(data.end, start, "year") > 1000 THEN Null
    ELSE Task(ReplaceAllBlanks(rawTask.id), index, start, FullDayEnd(data.end),
              data.duration, ParseDependencies(rawTask.dependencies))

\* _parseTask from the parsing of rawTask.end on (descEnd: its instant)
ParseEnd(rawTask, index, start, data, descEnd) ==
    IF descEnd = Raised THEN Raised
    ELSE IF data.hasEnd
    THEN (IF InstantCompare(data.end, descEnd) # 0 THEN Null
          ELSE ValidateTask(rawTask, index, start, data))
    ELSE ValidateTask(rawTask, index, start, TaskEnd(TRUE, descEnd, data.duration))

\* _parseTask after the start is parsed
ParseTaskFrom(rawTask, index, start, data) ==
    IF rawTask.hasEnd
    THEN ParseEnd(rawTask, index, start, data, parseInstant(rawTask.end))
    ELSE ValidateTask(rawTask, index, start, data)

ParseTaskAt(rawTask, index, start) ==
    IF start = Raised THEN Raised
    ELSE ParseTaskFrom(rawTask, index, start,
            IF rawTask.hasDuration
            THEN ApplyDurations(Split(rawTask.duration, {" "}), start,
                                Len(Split(rawTask.duration, {" "})))
            ELSE TaskEnd(FALSE, Null, 0))

\* _parseTask: a task, Null for a record it rejects, Raised for an
\* exception (the raw records of the model carry an id, so no uid is
\* generated)
ParseTask(rawTask, index) ==
    IF rawTask.start = <<>> THEN Null
    ELSE ParseTaskAt(rawTask, index, parseInstant(rawTask.start))

\* the empty Map
EmptyMap == [uid \in {} |-> 0]

\* the store: _tasks, _byId and whether an exception left the method
Store(ts, ids, raised) == [tasks |-> ts, byId |-> ids, raised |-> raised]

\* _addInternal
AddInternal(store, task) ==
    Store(Append(store.tasks, task),
          [uid \in DOMAIN store.byId \cup {task.uid} |->
              IF uid = task.uid THEN Len(store.tasks) + 1 ELSE store.byId[uid]],
          FALSE)

\* the callback of rawTasks.forEach in load
LoadOne(store, parsed) ==
    IF parsed = Raised THEN Store(store.tasks, store.byId, TRUE)
    ELSE IF parsed = Null THEN store
    ELSE AddInternal(store, parsed)

\* the store after rawTasks.forEach has reached record n: an exception
\* ends the iteration
RECURSIVE LoadFrom(_, _)
LoadFrom(raws, n) ==
    IF n = 0 THEN Store(<<>>, EmptyMap, FALSE)
    ELSE IF LoadFrom(raws, n - 1).raised THEN LoadFrom(raws, n - 1)
    ELSE LoadOne(LoadFrom(raws, n - 1), ParseTask(raws[n], n - 1))

DependencyIds(ts) ==
    UNION { {ts[i].uid} \cup { ts[i].dependencies[j] : j \in 1 .. Len(ts[i].dependencies) } :
              i \in 1 .. Len(ts) }

\* _buildDependencyGraph
BuildDependencyGraph(ts) ==
    [uid \in DependencyIds(ts) |->
        { ts[i].uid : i \in { k \in 1 .. Len(ts) :
              \E j \in 1 .. Len(ts[k].dependencies) : ts[k].dependencies[j] = uid } }]

\* a value passed where an instant is expected: a Temporal.Instant or a
\* string
InstantValue(instant) == [isText |-> FALSE, instant |-> instant, text |-> <<>>]
TextValue(text) == [isText |-> TRUE, instant |-> Null, text |-> text]

\* ensureInstant(input): Raised when the string does not parse
ensureInstant(input) ==
    IF input.isText THEN parseInstant(input.text) ELSE input.instant

\* one entry of Object.entries(changes); value is read for the keys start
\* and end, deps for the key dependencies
Change(key, value, deps) == [key |-> key, value |-> value, deps |-> deps]

\* a task while Task.update runs, and whether an exception left the loop
Updated(task, raised) == [task |-> task, raised |-> raised]

\* this[key] = ensureInstant(value)
AssignInstant(task, key, instant) ==
    IF instant = Raised THEN Updated(task, TRUE)
    ELSE IF key = "start" THEN Updated([task EXCEPT !.start = instant], FALSE)
    ELSE Updated([task EXCEPT !.end = instant], FALSE)

\* the body of the loop of Task.update
TaskUpdateOne(task, change) ==
    IF change.key \in {"uid", "_index"} THEN Updated(task, FALSE)
    ELSE IF change.key \in {"start", "end"}
    THEN AssignInstant(task, change.key, ensureInstant(change.value))
    ELSE Updated([task EXCEPT !.dependencies = change.deps], FALSE)

TaskUpdateNext(updated, change) ==
    IF updated.raised THEN updated ELSE TaskUpdateOne(updated.task, change)

\* Task.update(changes) after the first n entries
RECURSIVE TaskUpdate(_, _, _)
TaskUpdate(task, changes, n) ==
    IF n = 0 THEN Updated(task, FALSE)
    ELSE TaskUpdateNext(TaskUpdate(task, changes, n - 1), changes[n])

\* 'dependencies' in changes
HasDependencies(changes) ==
    \E k \in 1 .. Len(changes) : changes[k].key = "dependencies"

\* this._tasks.findIndex((t) => t.uid === id), 0 when there is none
FindIndex(ts, id) ==
    IF \E i \in 1 .. Len(ts) : ts[i].uid = id
    THEN CHOOSE i \in 1 .. Len(ts) :
            ts[i].uid = id /\ \A j \in 1 .. i - 1 : ts[j].uid # id
    ELSE 0

\* this._tasks.splice(index, 1) followed by the reindexing
SpliceAndReindex(ts, index) ==
    [i \in 1 .. Len(ts) - 1 |->
        [(IF i < index THEN ts[i] ELSE ts[i + 1]) EXCEPT !.index = i - 1]]

\* this._byId.delete(id); the tasks after the removed one move up
ByIdAfterRemove(ids, id, index) ==
    [uid \in DOMAIN ids \ {id} |-> IF ids[uid] > index THEN ids[uid] - 1 ELSE ids[uid]]

\* the store after construction
EmptyStore ==
    /\ tasks = <<>>
    /\ byId = EmptyMap
    /\ dependents = EmptyMap
    /\ rawTasks = <<>>
    /\ loadRaised = FALSE

\* no viewport, no chart and no call made yet
EmptyUi ==
    /\ viewport = Null
    /\ gantt = Null
    /\ today = Null
    /\ opts = Null

\* no bar rendered and no gesture in progress
EmptyDrag ==
    /\ bars = <<>>
    /\ dragState = Null
    /\ dragging = "null"
    /\ calls = <<>>

----------------------------------------------------------------------------
(* Calendar arithmetic applied to sampled instants *)

YearBase == 2023
NumYears == 2
NumMonths == 3
NumAnchorMonths == 2
NumTimes == 3
MaxQty == 13

DaySamples == {1, 15, 28, 29, 30, 31}
TimeSamples == <<0, 450000, 12 * MS_PER_HOUR, 23 * MS_PER_HOUR, MS_PER_DAY - 1>>

SampleDates ==
    { date \in [year : YearBase .. YearBase + NumYears - 1,
                month : 1 .. Min(NumMonths, 12),
                day : DaySamples] :
        date.day <= ISODaysInMonth(date.year, date.month) }

SampleInstants ==
    { Inst(EpochDays(date.year, date.month, date.day), TimeSamples[t]) :
        date \in SampleDates, t \in 1 .. Min(NumTimes, Len(TimeSamples)) }

\* the instants diff is anchored at (its second argument)
AnchorInstants ==
    { Inst(EpochDays(date.year, date.month, date.day), TimeSamples[t]) :
        date \in { sd \in SampleDates :
                      sd.year = YearBase /\ sd.month <= NumAnchorMonths },
        t \in 1 .. Min(NumTimes, Len(TimeSamples)) }

\* the results of diff are kept as 32-bit counts of hundredths: the finest
\* units are applied to instants close enough for the count to fit
DiffFits(a, b, unit) ==
    CASE unit = "millisecond" -> a.d = b.d /\ Abs(a.ms - b.ms) < 20000000
      [] unit = "second" -> Abs(a.d - b.d) < 200
      [] OTHER -> TRUE

CalInit ==
    /\ op = "init"
    /\ argA \in SampleInstants
    /\ argB = Null
    /\ argQty = 0
    /\ argUnit = "none"
    /\ out = Null
    /\ out2 = Null
    /\ num = 0
    /\ num2 = 0
    /\ argStr = <<>>
    /\ EmptyStore
    /\ EmptyUi
    /\ EmptyDrag

\* out = add(argA, qty, unit)
Add(qty, unit) ==
    /\ op = "init"
    /\ op' = "add"
    /\ argQty' = qty
    /\ argUnit' = unit
    /\ out' = add(argA, qty, unit)
    /\ UNCHANGED <<argA, argB, out2, num, num2>>
    /\ UNCHANGED <<argStr, storeVars>>
    /\ UNCHANGED uiVars
    /\ UNCHANGED dragVars

\* num = diff(add(argA, qty, unit), argA, unit)
DiffAfterAdd ==
    /\ op = "add"
    /\ argUnit \in {"year", "month", "week", "day"}
    /\ op' = "add_diff"
    /\ num' = diff(out, argA, argUnit)
    /\ UNCHANGED <<argA, argB, argQty, argUnit, out, out2, num2>>
    /\ UNCHANGED <<argStr, storeVars>>
    /\ UNCHANGED uiVars
    /\ UNCHANGED dragVars

\* num = diff(argA, b, unit) and num2 = diff(b, argA, unit)
Diff(b, unit) ==
    /\ op = "init"
    /\ DiffFits(argA, b, unit)
    /\ op' = "diff"
    /\ argB' = b
    /\ argUnit' = unit
    /\ num' = diff(argA, b, unit)
    /\ num2' = diff(b, argA, unit)
    /\ UNCHANGED <<argA, argQty, out, out2>>
    /\ UNCHANGED <<argStr, storeVars>>
    /\ UNCHANGED uiVars
    /\ UNCHANGED dragVars

\* out = floor(argA, unit)
Floor(unit) ==
    /\ op = "init"
    /\ op' = "floor"
    /\ argUnit' = unit
    /\ out' = floor(argA, unit)
    /\ UNCHANGED <<argA, argB, argQty, out2, num, num2>>
    /\ UNCHANGED <<argStr, storeVars>>
    /\ UNCHANGED uiVars
    /\ UNCHANGED dragVars

\* out2 = floor(floor(argA, unit), unit)
FloorAgain ==
    /\ op = "floor"
    /\ op' = "floor_floor"
    /\ out2' = floor(out, argUnit)
    /\ UNCHANGED <<argA, argB, argQty, argUnit, out, num, num2>>
    /\ UNCHANGED <<argStr, storeVars>>
    /\ UNCHANGED uiVars
    /\ UNCHANGED dragVars

CalNext ==
    \/ \E qty \in -2 .. MaxQty, unit \in Units : Add(qty, unit)
    \/ DiffAfterAdd
    \/ \E b \in AnchorInstants, unit \in Units \ {"week"} : Diff(b, unit)
    \/ \E unit \in Units : Floor(unit)
    \/ FloorAgain

SpecCal == CalInit /\ [][CalNext]_vars

----------------------------------------------------------------------------
(* Parsing and formatting applied to sampled strings and instants *)

MaxDigits == 2

DigitSamples == {"0", "1", "9"}

DigitStrings == UNION { [1 .. n -> DigitSamples] : n \in 0 .. MaxDigits }

\* what may stand before the digits, after them and after the unit
Prefixes == { <<>>, <<"-">>, <<" ">>, <<"x">> }
UnitParts ==
    UnitTokens \cup { <<>>, <<"m", "i">>, <<"m", "o", "s">>, <<"x">>, <<"D">>,
                      <<"h", "r">>, <<"M">> }
Suffixes == { <<>>, <<" ">>, <<"1">>, <<"s">> }

DurationStrings ==
    { p \o n \o u \o x :
        p \in Prefixes, n \in DigitStrings, u \in UnitParts, x \in Suffixes }

\* the components of date and time strings, well formed or not
YearTokens == { <<"2", "0", "2", "4">>, <<"9", "9", "9">>, <<"x">>,
                <<"2", "0", "x", "4">>, <<>> }
MonthTokens == { <<"0", "1">>, <<"0", "2">>, <<"2">>, <<"1", "3">>, <<"0", "0">>,
                 <<"x", "x">>, <<>> }
DayTokens == { <<"1", "0">>, <<"3", "1">>, <<"7">>, <<"a", "a">>, <<>> }
HourTokens == { <<"1", "0">>, <<"7">>, <<"2", "4">>, <<"a", "b">> }
MinuteTokens == { <<"3", "0">>, <<"6", "0">>, <<"x">> }
SecondTokens == { <<"1", "5">>, <<"z", "z">> }
FractionTokens == { <<"2", "5", "0">>, <<"2", "5">>, <<"q">> }

DateStrings ==
    YearTokens
      \cup { y \o <<"-">> \o m : y \in YearTokens, m \in MonthTokens }
      \cup { y \o <<"-">> \o m \o <<"-">> \o d :
                y \in YearTokens, m \in MonthTokens, d \in DayTokens }

TimeStrings ==
    HourTokens
      \cup { h \o <<":">> \o m : h \in HourTokens, m \in MinuteTokens }
      \cup { h \o <<":">> \o m \o <<":">> \o sec :
                h \in HourTokens, m \in MinuteTokens, sec \in SecondTokens }
      \cup { h \o <<":">> \o m \o <<":">> \o sec \o <<".">> \o f :
                h \in HourTokens, m \in MinuteTokens, sec \in SecondTokens,
                f \in FractionTokens }

\* strings in other shapes: ISO 8601 date-times with 'T', with 'Z', with an
\* offset, and blanks around the text
OtherInstantStrings ==
    { <<"2", "0", "2", "4", "-", "0", "1", "-", "1", "0", "T", "1", "0", ":", "3", "0">>,
      <<"2", "0", "2", "4", "-", "0", "1", "-", "1", "0", "T", "1", "0", ":", "3", "0", "Z">>,
      <<"2", "0", "2", "4", "-", "0", "1", "-", "1", "0", " ", "1", "0", ":", "3", "0",
        "-", "0", "5", ":", "0", "0">>,
      <<" ", "2", "0", "2", "4", "-", "0", "1", "-", "1", "0", " ">> }

InstantStrings ==
    DateStrings
      \cup { d \o <<" ">> \o t : d \in DateStrings, t \in TimeStrings }
      \cup OtherInstantStrings

\* years around the edges of the four-digit range
EdgeYears == {-1, 0, 999, 10000}

FormatInstants ==
    SampleInstants
      \cup { Inst(EpochDays(y, 6, 15), TimeSamples[t]) :
                y \in EdgeYears, t \in 1 .. Min(NumTimes, Len(TimeSamples)) }

ParseInit ==
    /\ op = "init"
    /\ argA = Null
    /\ argB = Null
    /\ argQty = 0
    /\ argUnit = "none"
    /\ out = Null
    /\ out2 = Null
    /\ num = 0
    /\ num2 = 0
    /\ argStr = <<>>
    /\ EmptyStore
    /\ EmptyUi
    /\ EmptyDrag

\* out = parseDurationString(s) and out2 = parseDuration(s)
ParseDuration(s) ==
    /\ op = "init"
    /\ op' = "parseDuration"
    /\ argStr' = s
    /\ out' = parseDurationString(s)
    /\ out2' = parseDuration(s)
    /\ UNCHANGED <<argA, argB, argQty, argUnit, num, num2>>
    /\ UNCHANGED storeVars
    /\ UNCHANGED uiVars
    /\ UNCHANGED dragVars

\* out = parseInstant(s)
ParseInstant(s) ==
    /\ op = "init"
    /\ op' = "parseInstant"
    /\ argStr' = s
    /\ out' = parseInstant(s)
    /\ UNCHANGED <<argA, argB, argQty, argUnit, out2, num, num2>>
    /\ UNCHANGED storeVars
    /\ UNCHANGED uiVars
    /\ UNCHANGED dragVars

\* argStr = format(i, 'YYYY-MM-DD HH:mm:ss.SSS')
Format(i) ==
    /\ op = "init"
    /\ op' = "format"
    /\ argA' = i
    /\ argStr' = format(i)
    /\ UNCHANGED <<argB, argQty, argUnit, out, out2, num, num2>>
    /\ UNCHANGED storeVars
    /\ UNCHANGED uiVars
    /\ UNCHANGED dragVars

\* out = parseInstant(format(argA, 'YYYY-MM-DD HH:mm:ss.SSS'))
ParseFormatted ==
    /\ op = "format"
    /\ op' = "format_parse"
    /\ out' = parseInstant(argStr)
    /\ UNCHANGED <<argA, argB, argQty, argUnit, out2, num, num2, argStr>>
    /\ UNCHANGED storeVars
    /\ UNCHANGED uiVars
    /\ UNCHANGED dragVars

\* the sample sets are only built where a call can start
ParseNext ==
    \/ op = "init" /\ \E s \in DurationStrings : ParseDuration(s)
    \/ op = "init" /\ \E s \in InstantStrings : ParseInstant(s)
    \/ op = "init" /\ \E i \in FormatInstants : Format(i)
    \/ ParseFormatted

SpecParse == ParseInit /\ [][ParseNext]_vars

----------------------------------------------------------------------------
(* The task store loading lists of sampled raw task records *)

MaxTasks == 2

\* a raw task record; an absent start is the empty string, hasEnd and
\* hasDuration tell whether end and duration are defined
RawTask(id, start, hasEnd, end, hasDuration, duration, dependencies) ==
    [id |-> id, start |-> start, hasEnd |-> hasEnd, end |-> end,
     hasDuration |-> hasDuration, duration |-> duration,
     dependencies |-> dependencies]

WithEnd(id, start, end, dependencies) ==
    RawTask(id, start, TRUE, end, FALSE, <<>>, dependencies)

WithDuration(id, start, duration, dependencies) ==
    RawTask(id, start, FALSE, <<>>, TRUE, duration, dependencies)

Jan10 == <<"2", "0", "2", "4", "-", "0", "1", "-", "1", "0">>
Jan20Noon == <<"2", "0", "2", "4", "-", "0", "1", "-", "2", "0", " ", "1", "2", ":", "0", "0">>

RawSamples ==
    { \* start 2023-01-15, duration '1y 1mo'
      WithDuration(<<"a">>, <<"2", "0", "2", "3", "-", "0", "1", "-", "1", "5">>,
                   <<"1", "y", " ", "1", "m", "o">>, <<>>),
      \* a plain record with an end, depending on a
      WithEnd(<<"b">>, Jan10, Jan20Noon, << <<"a">> >>),
      \* start with a non-numeric year
      WithEnd(<<"c">>, <<"x", "-", "0", "1", "-", "1", "0">>, Jan20Noon, <<>>),
      \* start with a non-numeric month
      WithEnd(<<"d">>, <<"2", "0", "2", "4", "-", "x", "x", "-", "1", "0">>, Jan20Noon, <<>>),
      \* no start
      WithEnd(<<"e">>, <<>>, Jan20Noon, <<>>),
      \* end before the start
      WithEnd(<<"f">>, Jan20Noon, Jan10, <<>>),
      \* a span above ten years
      WithEnd(<<"g">>, <<"2", "0", "1", "0", "-", "0", "1", "-", "0", "1">>, Jan20Noon, <<>>),
      \* end with a non-numeric day
      WithEnd(<<"h">>, Jan10, <<"2", "0", "2", "4", "-", "0", "2", "-", "a", "a">>, <<>>),
      \* an id and a dependency with blanks, start 2024-01-10 08:00,
      \* duration '4h 30min'
      WithDuration(<<"i", " ", "j">>,
                   Jan10 \o <<" ", "0", "8", ":", "0", "0">>,
                   <<"4", "h", " ", "3", "0", "m", "i", "n">>, << <<" ", "b", " ">>, <<>> >>),
      \* neither end nor duration
      RawTask(<<"k">>, Jan10, FALSE, <<>>, FALSE, <<>>, <<>>),
      \* an end that repeats what the duration gives
      RawTask(<<"l">>, Jan20Noon, TRUE,
              <<"2", "0", "2", "4", "-", "0", "1", "-", "2", "2", " ", "1", "2", ":", "0", "0">>,
              TRUE, <<"2", "d">>, <<>>),
      \* ten years and a day, the end given as a date
      WithEnd(<<"m">>, <<"2", "0", "1", "4", "-", "0", "1", "-", "0", "1">>,
              <<"2", "0", "2", "4", "-", "0", "1", "-", "0", "2">>, <<>>) }

RawTaskLists == UNION { [1 .. n -> RawSamples] : n \in 0 .. MaxTasks }

TasksInit ==
    /\ op = "init"
    /\ argA = Null
    /\ argB = Null
    /\ argQty = 0
    /\ argUnit = "none"
    /\ out = Null
    /\ out2 = Null
    /\ num = 0
    /\ num2 = 0
    /\ argStr = <<>>
    /\ EmptyStore
    /\ EmptyUi
    /\ EmptyDrag

\* the assignments of load, given the store its forEach ends with
LoadResult(list, store) ==
    /\ tasks' = store.tasks
    /\ byId' = store.byId
    /\ dependents' = IF store.raised THEN EmptyMap ELSE BuildDependencyGraph(store.tasks)
    /\ loadRaised' = store.raised
    /\ rawTasks' = list

\* Tasks.load(list): clear, parse and add each record, build the graph
Load(list) ==
    /\ op' = "load"
    /\ LoadResult(list, LoadFrom(list, Len(list)))
    /\ UNCHANGED <<argA, argB, argQty, argUnit, out, out2, num, num2, argStr>>
    /\ UNCHANGED uiVars
    /\ UNCHANGED dragVars

\* Tasks.clear()
Clear ==
    /\ op' = "clear"
    /\ tasks' = <<>>
    /\ byId' = EmptyMap
    /\ dependents' = EmptyMap
    /\ loadRaised' = FALSE
    /\ rawTasks' = <<>>
    /\ UNCHANGED <<argA, argB, argQty, argUnit, out, out2, num, num2, argStr>>
    /\ UNCHANGED uiVars
    /\ UNCHANGED dragVars

\* the store after add has parsed the record
AddResult(parsed) ==
    IF parsed \in {Null, Raised} THEN Store(tasks, byId, parsed = Raised)
    ELSE AddInternal(Store(tasks, byId, FALSE), parsed)

\* the assignments of add, given what _parseTask returned and the store
\* that follows
AddAssignments(parsed, store) ==
    /\ out' = parsed
    /\ tasks' = store.tasks
    /\ byId' = store.byId
    /\ dependents' = IF parsed \in {Null, Raised} THEN dependents
                     ELSE BuildDependencyGraph(store.tasks)

AddParsed(parsed) == AddAssignments(parsed, AddResult(parsed))

\* Tasks.add(rawTask): parse the record at index _tasks.length, store the
\* task and rebuild the graph; out is what add returns, Raised when it throws
TasksAdd(rawTask) ==
    /\ op = "load"
    /\ op' = "tasks_add"
    /\ AddParsed(ParseTask(rawTask, Len(tasks)))
    /\ opts' = [rawTask |-> rawTask]
    /\ UNCHANGED <<rawTasks, loadRaised>>
    /\ UNCHANGED <<argA, argB, argQty, argUnit, out2, num, num2, argStr>>
    /\ UNCHANGED <<viewport, gantt, today>>
    /\ UNCHANGED dragVars

\* Tasks.remove(id); out is what remove returns
TasksRemove(id) ==
    /\ op = "load"
    /\ op' = "tasks_remove"
    /\ opts' = [id |-> id]
    /\ out' = [removed |-> FindIndex(tasks, id) # 0]
    /\ IF FindIndex(tasks, id) = 0
       THEN UNCHANGED <<tasks, byId, dependents>>
       ELSE /\ tasks' = SpliceAndReindex(tasks, FindIndex(tasks, id))
            /\ byId' = ByIdAfterRemove(byId, id, FindIndex(tasks, id))
            /\ dependents' = BuildDependencyGraph(tasks')
    /\ UNCHANGED <<rawTasks, loadRaised>>
    /\ UNCHANGED <<argA, argB, argQty, argUnit, out2, num, num2, argStr>>
    /\ UNCHANGED <<viewport, gantt, today>>
    /\ UNCHANGED dragVars

\* the assignments of update, given what Task.update left
UpdateAssignments(id, changes, updated) ==
    /\ tasks' = [tasks EXCEPT ![byId[id]] = updated.task]
    /\ dependents' = IF ~updated.raised /\ HasDependencies(changes)
                     THEN BuildDependencyGraph(tasks')
                     ELSE dependents
    /\ out' = IF updated.raised THEN Raised ELSE updated.task

\* Tasks.update(id, changes); out is what update returns, Raised when it
\* throws
TasksUpdate(id, changes) ==
    /\ op = "load"
    /\ op' = "tasks_update"
    /\ opts' = [id |-> id, changes |-> changes]
    /\ IF id \notin DOMAIN byId
       THEN out' = Null /\ UNCHANGED <<tasks, dependents>>
       ELSE UpdateAssignments(id, changes,
                              TaskUpdate(tasks[byId[id]], changes, Len(changes)))
    /\ UNCHANGED <<byId, rawTasks, loadRaised>>
    /\ UNCHANGED <<argA, argB, argQty, argUnit, out2, num, num2, argStr>>
    /\ UNCHANGED <<viewport, gantt, today>>
    /\ UNCHANGED dragVars

\* the ids removed and updated: two that the samples carry and one that no
\* record has
IdSamples == { <<"a">>, <<"b">>, <<"z", "z">> }

Feb01 == Inst(EpochDays(2024, 2, 1), 0)
Jan01 == Inst(EpochDays(2024, 1, 1), 0)

ChangesSamples ==
    { << Change("start", InstantValue(Feb01), <<>>) >>,
      << Change("end", InstantValue(Jan01), <<>>) >>,
      << Change("dependencies", InstantValue(Null), << <<"b">>, <<"c">> >>) >>,
      << Change("uid", InstantValue(Null), <<>>), Change("_index", InstantValue(Null), <<>>),
         Change("start", TextValue(Jan10), <<>>) >>,
      << Change("end", InstantValue(Feb01), <<>>),
         Change("start", TextValue(<<"x", "-", "0", "1", "-", "1", "0">>), <<>>),
         Change("dependencies", InstantValue(Null), <<>>) >> }

\* load starts by clearing the store, so its outcome is the same from every
\* state: the lists are only enumerated from a store just built or cleared;
\* add is followed from the stores loaded with at most one record
TasksNext ==
    \/ op \in {"init", "clear"} /\ \E list \in RawTaskLists : Load(list)
    \/ op = "load" /\ Len(rawTasks) <= 1 /\ \E rawTask \in RawSamples : TasksAdd(rawTask)
    \/ op = "load" /\ \E id \in IdSamples : TasksRemove(id)
    \/ op = "load" /\ \E id \in IdSamples, changes \in ChangesSamples :
                        TasksUpdate(id, changes)
    \/ op \in {"init", "load", "clear"} /\ Clear

SpecTasks == TasksInit /\ [][TasksNext]_vars

----------------------------------------------------------------------------
(* Properties of the calendar arithmetic *)

\* the month add(argA, argQty, 'month') aims at
TargetMonth == BalanceISOYearMonth(toPlainDateTime(argA).year,
                                   toPlainDateTime(argA).month + argQty)

AddedMonthOverflows ==
    /\ op = "add"
    /\ argUnit = "month"
    /\ toPlainDateTime(argA).day > ISODaysInMonth(TargetMonth.year, TargetMonth.month)

\* C1: add(instant, qty, 'month') does not clamp: whenever the source
\* day-of-month does not exist in the target month, the result lies in the
\* month after the target month.
C1_AddMonthRollsOver ==
    AddedMonthOverflows =>
        LET next == BalanceISOYearMonth(TargetMonth.year, TargetMonth.month + 1)
        IN  /\ toPlainDateTime(out).year = next.year
            /\ toPlainDateTime(out).month = next.month

\* C7: for fixed-length units, diff(a, b, unit) = -diff(b, a, unit), each
\* side being the value rounded to 2 decimal places.
C7_DiffAntisymmetric ==
    (op = "diff" /\ argUnit \in FixedUnits) => num = -num2

RawMonths(a, b) == 12 * (a.year - b.year) + (a.month - b.month)

\* C8: for a later than b, the whole-month part of diff(a, b, 'month') is
\* raw = 12 * (year(a) - year(b)) + (month(a) - month(b)) when a's
\* day-of-month is not less than b's, and raw - 1 when it is less.
C8_DayOfMonthDecidesMonths ==
    (op = "diff" /\ argUnit = "month" /\ InstantCompare(argA, argB) > 0) =>
        num \div 100 =
            RawMonths(toPlainDateTime(argA), toPlainDateTime(argB))
              - (IF toPlainDateTime(argA).day < toPlainDateTime(argB).day
                 THEN 1 ELSE 0)

\* the day-of-month of b exists in each of the n months that follow b's
DayExistsInNextMonths(b, n) ==
    \A k \in 1 .. n :
        b.day <= ISODaysInMonth(BalanceISOYearMonth(b.year, b.month + k).year,
                                BalanceISOYearMonth(b.year, b.month + k).month)

\* C9: for every instant b whose day-of-month exists in the following n
\* months and a = add(b, n, 'month'), diff(a, b, 'month') = n exactly,
\* whatever the lengths of the months crossed.
C9_AddThenDiffIsExact ==
    (/\ op = "add_diff"
     /\ argUnit = "month"
     /\ argQty >= 1
     /\ DayExistsInNextMonths(toPlainDateTime(argA), argQty))
        => num = 100 * argQty

\* two months added from a 28th of January (31 days, then February) and
\* measured back as exactly 2.00
C9_Witness ==
    /\ op = "add_diff"
    /\ argUnit = "month"
    /\ argQty = 2
    /\ toPlainDateTime(argA).month = 1
    /\ toPlainDateTime(argA).day = 28
    /\ argA.ms > 0
    /\ num = 200

\* C10: floor is idempotent for every unit of year .. second, and for
\* 'week' the result is the most recent Monday 00:00 UTC at or before i.
C10_FloorIdempotent ==
    /\ (op = "floor_floor" /\ argUnit \in Units \ {"millisecond"}) => out2 = out
    /\ (op \in {"floor", "floor_floor"} /\ argUnit = "week") =>
            /\ DayOfWeek(out.d) = 1
            /\ out.ms = 0
            /\ out.d <= argA.d
            /\ argA.d - out.d <= 6

\* a week floor that moved the instant back to an earlier Monday, floored again
C10_Witness ==
    /\ op = "floor_floor"
    /\ argUnit = "week"
    /\ out.d < argA.d
    /\ DayOfWeek(out.d) = 1
    /\ out2 = out

----------------------------------------------------------------------------
(* Properties of parsing and formatting *)

\* the unit each token of the duration grammar stands for
C5_UnitOf(token) ==
    CASE token = <<"y">> -> "year"
      [] token \in { <<"m", "o">>, <<"m">> } -> "month"
      [] token = <<"w">> -> "week"
      [] token = <<"d">> -> "day"
      [] token = <<"h">> -> "hour"
      [] token = <<"m", "i", "n">> -> "minute"
      [] token = <<"s">> -> "second"
      [] token = <<"m", "s">> -> "millisecond"

C5_Tokens ==
    { <<"y">>, <<"m", "o">>, <<"m">>, <<"w">>, <<"d">>, <<"h">>,
      <<"m", "i", "n">>, <<"s">>, <<"m", "s">> }

\* the ways of reading argStr as digits immediately followed by a unit token
C5_Readings ==
    { k \in 1 .. Len(argStr) - 1 :
        /\ IsDigits(SubSeq(argStr, 1, k))
        /\ SubSeq(argStr, k + 1, Len(argStr)) \in C5_Tokens }

C5_Expected(value, unit) ==
    /\ out = [value |-> value, unit |-> unit]
    /\ \A u \in Units : out2[u] = IF u = unit THEN value ELSE 0

\* C5: parseDuration and parseDurationString accept exactly the strings
\* made of an unsigned decimal integer immediately followed by one unit
\* token of {y, mo, m, w, d, h, min, s, ms}, with 'm' and 'mo' read as month
\* and 'min' as minute; for every other string they return 1 day and do not
\* raise.
C5_DurationGrammar ==
    op = "parseDuration" =>
        IF C5_Readings # {}
        THEN \A k \in C5_Readings :
                C5_Expected(ParseDigits(SubSeq(argStr, 1, k)),
                            C5_UnitOf(SubSeq(argStr, k + 1, Len(argStr))))
        ELSE C5_Expected(1, "day")

\* '19m' (or another two-digit count of 'm') read as that many months
C5_Witness ==
    /\ op = "parseDuration"
    /\ Len(argStr) = 3
    /\ argStr[3] = "m"
    /\ out.unit = "month"
    /\ out.value >= 10
    /\ out2["month"] = out.value

\* the date and time components of a string date[ time]
C4_DateParts == Split(Split(argStr, {" "})[1], {"-"})
C4_TimeParts ==
    IF Len(Split(argStr, {" "})) >= 2
    THEN Split(Split(argStr, {" "})[2], {".", ":"}) ELSE <<>>

C4_NotANumber(token) == token # <<>> /\ ~IsDigits(token)

\* C4: parseInstant raises for every string in the compact form
\* YYYY-MM-DD[ HH:mm:ss.fff] in which a date or time component is not a
\* number; it never puts a default in the place of such a component.
C4_InvalidComponentRaises ==
    (/\ op = "parseInstant"
     /\ Len(Split(argStr, {" "})) <= 2
     /\ Len(C4_DateParts) = 3
     /\ Len(C4_TimeParts) <= 4
     /\ \A i \in 1 .. Len(C4_DateParts) : C4_DateParts[i] # <<>>
     /\ \A i \in 1 .. Len(C4_TimeParts) : C4_TimeParts[i] # <<>>
     /\ \/ \E i \in 1 .. Len(C4_DateParts) : C4_NotANumber(C4_DateParts[i])
        \/ \E i \in 1 .. Len(C4_TimeParts) : C4_NotANumber(C4_TimeParts[i]))
        => out = Raised

\* C6: parseInstant(format(i, 'YYYY-MM-DD HH:mm:ss.SSS')) is the instant i,
\* for every instant i of millisecond precision.
C6_RoundTrip ==
    op = "format_parse" => out = argA

----------------------------------------------------------------------------
(* Properties of the task store *)

\* the raw record a stored task was parsed from
C2_RawOf(task) == rawTasks[task.index + 1]

\* every token of a composite duration is of the duration grammar
C2_AllTokensValid(tokens) ==
    \A i \in 1 .. Len(tokens) : DurationRegexMatch(tokens[i]).matched

\* the first n tokens added one after the other, each to the result of the
\* previous one
RECURSIVE C2_RunningEnd(_, _, _)
C2_RunningEnd(start, tokens, n) ==
    IF n = 0 THEN start
    ELSE add(C2_RunningEnd(start, tokens, n - 1),
             parseDurationString(tokens[n]).value,
             parseDurationString(tokens[n]).unit)

C2_EndAfter(start, tokens) == C2_RunningEnd(start, tokens, Len(tokens))

\* C2: a composite duration is applied left to right, each token added to
\* the result of the previous one: the end of a task loaded from a start
\* and a duration is the running instant after the last token (made a full
\* day when it falls on midnight).
C2_CompositeDurationRuns ==
    op = "load" =>
        \A i \in 1 .. Len(tasks) :
            (/\ C2_RawOf(tasks[i]).hasDuration
             /\ ~C2_RawOf(tasks[i]).hasEnd
             /\ C2_AllTokensValid(Split(C2_RawOf(tasks[i]).duration, {" "})))
                => tasks[i].end =
                      FullDayEnd(C2_EndAfter(tasks[i].start,
                                     Split(C2_RawOf(tasks[i]).duration, {" "})))

\* a date[ time] string naming an existing day and time
C3_WellFormed(str) ==
    /\ Len(Split(Trim(str), {" "})) \in 1 .. 2
    /\ IsISODate(Split(Trim(str), {" "})[1])
    /\ Len(Split(Trim(str), {" "})) = 2 => IsISOTime(Split(Trim(str), {" "})[2])

\* the end a well-formed record asks for
C3_EndOf(raw) ==
    IF raw.hasEnd THEN parseInstant(raw.end)
    ELSE C2_EndAfter(parseInstant(raw.start), Split(raw.duration, {" "}))

\* a record load has to keep: start and end well formed, the end given or
\* derived from a duration, not before the start and at most 10 years after
C3_Valid(raw) ==
    /\ raw.start # <<>> /\ C3_WellFormed(raw.start)
    /\ raw.hasEnd \/ raw.hasDuration
    /\ raw.hasEnd => C3_WellFormed(raw.end)
    /\ \A start \in {parseInstant(raw.start)}, end \in {C3_EndOf(raw)} :
          /\ InstantCompare(end, start) >= 0
          /\ diff(end, start, "year") <= 1000

\* C3: load never aborts because of one bad record: it returns without
\* raising and the store then holds exactly the valid records of the list,
\* in input order.
C3_LoadSkipsBadRecords ==
    op = "load" =>
        /\ ~loadRaised
        /\ [i \in 1 .. Len(tasks) |-> tasks[i].index + 1]
              = SelectSeq([i \in 1 .. Len(rawTasks) |-> i],
                          LAMBDA i : C3_Valid(rawTasks[i]))

----------------------------------------------------------------------------
(* formatDuration: a Temporal.Duration (a count per unit) written as text *)

Chars_year == <<"y", "e", "a", "r">>
Chars_month == <<"m", "o", "n", "t", "h">>
Chars_week == <<"w", "e", "e", "k">>
Chars_day == <<"d", "a", "y">>
Chars_hour == <<"h", "o", "u", "r">>
Chars_minute == <<"m", "i", "n", "u", "t", "e">>
Chars_second == <<"s", "e", "c", "o", "n", "d">>
Chars_millisecond == <<"m", "i", "l", "l", "i">> \o Chars_second

\* the singular unit name: unit.slice(0, -1) of 'years', 'months', ...
Singular(unit) ==
    CASE unit = "year" -> Chars_year
      [] unit = "month" -> Chars_month
      [] unit = "week" -> Chars_week
      [] unit = "day" -> Chars_day
      [] unit = "hour" -> Chars_hour
      [] unit = "minute" -> Chars_minute
      [] unit = "second" -> Chars_second
      [] unit = "millisecond" -> Chars_millisecond

UNIT_SHORT_FORMS(unit) ==
    CASE unit = "year" -> <<"y">>
      [] unit = "month" -> <<"m", "o">>
      [] unit = "week" -> <<"w">>
      [] unit = "day" -> <<"d">>
      [] unit = "hour" -> <<"h">>
      [] unit = "minute" -> <<"m", "i", "n">>
      [] unit = "second" -> <<"s">>
      [] unit = "millisecond" -> <<"m", "s">>

LessThanOneSecond ==
    <<"l", "e", "s", "s", " ", "t", "h", "a", "n", " ", "1", " ">> \o Chars_second

\* the options of formatDuration; maxUnits 0 stands for null (both falsy)
FormatOptions(showMilliseconds, maxUnits, shortForm) ==
    [showMilliseconds |-> showMilliseconds, maxUnits |-> maxUnits,
     shortForm |-> shortForm]

\* the time fields of a duration in milliseconds
DurationTimeMs(D) ==
    D["hour"] * MS_PER_HOUR + D["minute"] * MS_PER_MINUTE
        + D["second"] * MS_PER_SECOND + D["millisecond"]

\* Temporal.Duration.compare(duration, zero) without relativeTo: a
\* RangeError when the duration has years, months or weeks; days count as
\* 24 hours
DurationHasCalendarUnits(D) == D["year"] # 0 \/ D["month"] # 0 \/ D["week"] # 0

DurationCompareZero(D) ==
    IF D["day"] # 0 THEN Sign(D["day"]) ELSE Sign(DurationTimeMs(D))

DurationNegated(D) == [u \in Units |-> -D[u]]

\* the end of the duration laid out from midnight of relativeTo, rounded to
\* smallestUnit with the default roundingMode 'halfExpand'
RoundToSecond(instant) ==
    ShiftInstant(Inst(instant.d, 0), 0,
                 ((instant.ms + MS_PER_SECOND \div 2) \div MS_PER_SECOND) * MS_PER_SECOND)

DurationEnd(D, relativeTo, showMilliseconds) ==
    IF showMilliseconds
    THEN ShiftInstant(Inst(EpochDaysOf(relativeTo) + D["day"], 0), 0, DurationTimeMs(D))
    ELSE RoundToSecond(
            ShiftInstant(Inst(EpochDaysOf(relativeTo) + D["day"], 0), 0, DurationTimeMs(D)))

\* duration.round({ largestUnit: 'year', smallestUnit, relativeTo })
DurationRound(D, relativeTo, showMilliseconds) ==
    DifferenceISODateTime(toPlainDateTime(Inst(EpochDaysOf(relativeTo), 0)),
                          toPlainDateTime(DurationEnd(D, relativeTo, showMilliseconds)),
                          "year")

\* balanced[unit]
BalancedField(balanced, unit) ==
    CASE unit = "year" -> balanced.years
      [] unit = "month" -> balanced.months
      [] unit = "week" -> balanced.weeks
      [] unit = "day" -> balanced.days
      [] unit = "hour" -> balanced.ms \div MS_PER_HOUR
      [] unit = "minute" -> (balanced.ms % MS_PER_HOUR) \div MS_PER_MINUTE
      [] unit = "second" -> (balanced.ms % MS_PER_MINUTE) \div MS_PER_SECOND
      [] unit = "millisecond" -> balanced.ms % MS_PER_SECOND

UnitOrder(showMilliseconds) ==
    IF showMilliseconds
    THEN <<"year", "month", "week", "day", "hour", "minute", "second", "millisecond">>
    ELSE <<"year", "month", "week", "day", "hour", "minute", "second">>

\* `${value}${separator}${label}`
DurationPart(value, unit, shortForm) ==
    IF shortForm THEN NatToString(value) \o UNIT_SHORT_FORMS(unit)
    ELSE NatToString(value) \o <<" ">> \o Singular(unit)
            \o (IF value = 1 THEN <<>> ELSE <<"s">>)

PartsAfter(parts, value, unit, shortForm) ==
    IF value > 0 THEN Append(parts, DurationPart(value, unit, shortForm)) ELSE parts

\* the loop over unitOrder from position k on, leaving at maxUnits parts
RECURSIVE DurationPartsFrom(_, _, _, _, _)
DurationPartsFrom(balanced, order, k, parts, options) ==
    IF k > Len(order) THEN parts
    ELSE IF options.maxUnits # 0
            /\ Len(PartsAfter(parts, BalancedField(balanced, order[k]), order[k],
                              options.shortForm)) >= options.maxUnits
         THEN PartsAfter(parts, BalancedField(balanced, order[k]), order[k],
                         options.shortForm)
         ELSE DurationPartsFrom(balanced, order, k + 1,
                  PartsAfter(parts, BalancedField(balanced, order[k]), order[k],
                             options.shortForm),
                  options)

\* parts.join(separator)
RECURSIVE Join(_, _, _)
Join(parts, separator, n) ==
    IF n = 0 THEN <<>>
    ELSE IF n = 1 THEN parts[1]
    ELSE Join(parts, separator, n - 1) \o separator \o parts[n]

formatPositiveOf(parts, options) ==
    IF Len(parts) = 0 /\ ~options.showMilliseconds
    THEN IF options.shortForm THEN <<"<", "1", "s">> ELSE LessThanOneSecond
    ELSE Join(parts, IF options.shortForm THEN <<" ">> ELSE <<",", " ">>, Len(parts))

formatPositive(D, relativeTo, options) ==
    formatPositiveOf(
        DurationPartsFrom(DurationRound(D, relativeTo, options.showMilliseconds),
                          UnitOrder(options.showMilliseconds), 1, <<>>, options),
        options)

\* formatDuration(duration, options) at wall-clock date relativeTo; Raised
\* for the RangeError of Duration.compare
formatDuration(D, relativeTo, options) ==
    IF DurationHasCalendarUnits(D) THEN Raised
    ELSE IF DurationCompareZero(D) = 0
    THEN IF options.shortForm THEN <<"0", "m", "s">>
         ELSE <<"0", " ">> \o Chars_millisecond \o <<"s">>
    ELSE IF DurationCompareZero(D) < 0
    THEN <<"-">> \o formatPositive(DurationNegated(D), relativeTo, options)
    ELSE formatPositive(D, relativeTo, options)

\* Temporal.Duration.from({ days, milliseconds })
DaysAndMs(days, ms) ==
    [u \in Units |-> IF u = "day" THEN days ELSE IF u = "millisecond" THEN ms ELSE 0]

MsSamples == {0, 1, 499, 500, 999, 1000, 1499, 59500, 3661001, 86399500}
DaySpanSamples == {0, 1, 45, 400}

DurationSamples ==
    { DaysAndMs(d, ms) : d \in DaySpanSamples, ms \in MsSamples }
        \cup { DaysAndMs(-d, -ms) : d \in DaySpanSamples, ms \in MsSamples }
        \cup { TemporalDurationFrom("month", 1), TemporalDurationFrom("week", 2) }

TodaySamples ==
    { [year |-> 2023, month |-> 1, day |-> 31], [year |-> 2024, month |-> 2, day |-> 1] }

FormatOptionSamples ==
    { FormatOptions(showMs, maxUnits, short) :
        showMs \in BOOLEAN, maxUnits \in 0 .. 2, short \in BOOLEAN }

DurationInit ==
    /\ op = "init"
    /\ argA = Null
    /\ argB = Null
    /\ argQty = 0
    /\ argUnit = "none"
    /\ out = Null
    /\ out2 = Null
    /\ num = 0
    /\ num2 = 0
    /\ argStr = <<>>
    /\ EmptyStore
    /\ EmptyUi
    /\ EmptyDrag

\* argStr = formatDuration(D, options) called on the date `date`; out is
\* Raised when the call throws
FormatDuration(D, date, options) ==
    /\ op = "init"
    /\ op' = "formatDuration"
    /\ opts' = [duration |-> D, options |-> options]
    /\ today' = date
    /\ out' = IF formatDuration(D, date, options) = Raised THEN Raised ELSE Null
    /\ argStr' = IF formatDuration(D, date, options) = Raised THEN <<>>
               ELSE formatDuration(D, date, options)
    /\ UNCHANGED <<argA, argB, argQty, argUnit, out2, num, num2>>
    /\ UNCHANGED storeVars
    /\ UNCHANGED <<viewport, gantt>>
    /\ UNCHANGED dragVars

\* date_utils.format_duration(ms, options).  A number of milliseconds is
\* written [d, ms]: d whole days and ms milliseconds of the last day, both
\* of one sign.
Milliseconds(d, ms) == [d |-> d, ms |-> ms]

\* units: year, month, day, hour, minute, second and, with showMilliseconds,
\* millisecond
format_duration_units(showMilliseconds) ==
    IF showMilliseconds
    THEN <<"year", "month", "day", "hour", "minute", "second", "millisecond">>
    ELSE <<"year", "month", "day", "hour", "minute", "second">>

\* unit.ms as days and milliseconds: a year is 365 days, a month 30 days
format_duration_ms(unit) ==
    CASE unit = "year" -> Milliseconds(365, 0)
      [] unit = "month" -> Milliseconds(30, 0)
      [] unit = "day" -> Milliseconds(1, 0)
      [] unit = "hour" -> Milliseconds(0, MS_PER_HOUR)
      [] unit = "minute" -> Milliseconds(0, MS_PER_MINUTE)
      [] unit = "second" -> Milliseconds(0, MS_PER_SECOND)
      [] unit = "millisecond" -> Milliseconds(0, 1)

\* Math.floor(remainingMs / unit.ms), remainingMs.ms being less than a day
UnitCount(remainingMs, unit) ==
    IF format_duration_ms(unit).d > 0 THEN remainingMs.d \div format_duration_ms(unit).d
    ELSE (remainingMs.d * (MS_PER_DAY \div format_duration_ms(unit).ms))
            + remainingMs.ms \div format_duration_ms(unit).ms

\* a loop that drops the whole remainder at each unit
RemainingAfter_dropped(remainingMs, count, unit) == Milliseconds(0, 0)

\* remainingMs -= count * unit.ms
RemainingAfter(remainingMs, count, unit) ==
    IF format_duration_ms(unit).d > 0
    THEN Milliseconds(remainingMs.d - count * format_duration_ms(unit).d, remainingMs.ms)
    ELSE Milliseconds(0, remainingMs.d * MS_PER_DAY + remainingMs.ms
                            - count * format_duration_ms(unit).ms)

\* a part before it is written: the count and the unit
CountedAfter(counted, count, unit) ==
    IF count > 0 THEN Append(counted, [count |-> count, unit |-> unit]) ELSE counted

\* the loop over units from position k on, leaving at maxUnits parts; the
\* result is the list of the parts as counts and units
RECURSIVE format_duration_loop(_, _, _, _, _)
format_duration_loop(remainingMs, units, k, counted, maxUnits) ==
    IF k > Len(units) THEN counted
    ELSE IF maxUnits # 0
            /\ Len(CountedAfter(counted, UnitCount(remainingMs, units[k]), units[k]))
                  >= maxUnits
         THEN CountedAfter(counted, UnitCount(remainingMs, units[k]), units[k])
         ELSE format_duration_loop(
                  RemainingAfter(remainingMs, UnitCount(remainingMs, units[k]), units[k]),
                  units, k + 1,
                  CountedAfter(counted, UnitCount(remainingMs, units[k]), units[k]),
                  maxUnits)

\* parts: the counted parts written `${count}${separator}${label}`
format_duration_parts(ms, options) ==
    LET counted == format_duration_loop(ms, format_duration_units(options.showMilliseconds),
                                        1, <<>>, options.maxUnits)
    IN  [i \in 1 .. Len(counted) |->
            DurationPart(counted[i].count, counted[i].unit, options.shortForm)]

format_duration(ms, options) ==
    IF ms = Milliseconds(0, 0)
    THEN IF options.shortForm THEN <<"0", "m", "s">>
         ELSE <<"0", " ">> \o Chars_millisecond \o <<"s">>
    ELSE IF ms.d < 0 \/ ms.ms < 0
    THEN <<"-">> \o formatPositiveOf(
                        format_duration_parts(Milliseconds(-ms.d, -ms.ms), options), options)
    ELSE formatPositiveOf(format_duration_parts(ms, options), options)

MillisecondsSamples ==
    { Milliseconds(d, ms) :
        d \in {0, 1, 29, 30, 37, 364, 365, 395, 761, 4000},
        ms \in {0, 1, 500, 1500, 90000, 1800000, 3600000, 5400000, 86399999} }
      \cup { Milliseconds(-1, -1800000), Milliseconds(0, -1) }

LegacyFormatOptionSamples ==
    { FormatOptions(showMs, maxUnits, short) :
        showMs \in BOOLEAN, maxUnits \in 0 .. 3, short \in BOOLEAN }

\* argStr = date_utils.format_duration(ms, options); opts keeps the
\* arguments and the counted parts of the loop
Format_duration(ms, options) ==
    /\ op = "init"
    /\ op' = "format_duration"
    /\ opts' = [ms |-> ms, options |-> options,
                counted |-> format_duration_loop(
                                Milliseconds(Abs(ms.d), Abs(ms.ms)),
                                format_duration_units(options.showMilliseconds),
                                1, <<>>, options.maxUnits)]
    /\ argStr' = format_duration(ms, options)
    /\ UNCHANGED <<argA, argB, argQty, argUnit, out, out2, num, num2>>
    /\ UNCHANGED storeVars
    /\ UNCHANGED <<viewport, gantt, today>>
    /\ UNCHANGED dragVars

DurationNext ==
    \/ \E D \in DurationSamples, date \in TodaySamples, options \in FormatOptionSamples :
            FormatDuration(D, date, options)
    \/ \E ms \in MillisecondsSamples, options \in LegacyFormatOptionSamples :
            Format_duration(ms, options)

SpecDuration == DurationInit /\ [][DurationNext]_vars

----------------------------------------------------------------------------
(* JavaScript numbers.  A finite number is the exact fraction n / d in      *)
(* lowest terms with d > 0; d = 0 stands for the non-finite values:         *)
(* n = 1 for Infinity, n = -1 for -Infinity and n = 0 for NaN.              *)

RECURSIVE GCD(_, _)
GCD(a, b) == IF b = 0 THEN a ELSE GCD(b, a % b)

Max(a, b) == IF a >= b THEN a ELSE b

NaN == [n |-> 0, d |-> 0]

RatOver(n, d, g) == [n |-> Sign(d) * (n \div g), d |-> Abs(d) \div g]

\* the number n / d
Rat(n, d) ==
    IF d = 0 THEN [n |-> Sign(n), d |-> 0]
    ELSE RatOver(n, d, GCD(Abs(n), Abs(d)))

NumOfInt(k) == [n |-> k, d |-> 1]

IsFinite(x) == x.d # 0

\* a * b, the common factors removed before multiplying
NumMulBy(a, b, g1, g2) ==
    Rat((a.n \div g1) * (b.n \div g2), (a.d \div g2) * (b.d \div g1))

NumMul(a, b) ==
    NumMulBy(a, b, Max(1, GCD(Abs(a.n), b.d)), Max(1, GCD(Abs(b.n), a.d)))

\* 1 / b
NumInverse(b) ==
    IF b.d = 0 THEN (IF b.n = 0 THEN NaN ELSE NumOfInt(0))
    ELSE [n |-> Sign(b.n) * b.d, d |-> Abs(b.n)]

NumDiv(a, b) ==
    IF b.n = 0 /\ b.d # 0 THEN Rat(a.n, 0) ELSE NumMul(a, NumInverse(b))

\* Math.floor, the rounding of a snap that always falls back
MathRound_floor(x) ==
    IF x.d = 0 THEN x ELSE NumOfInt(x.n \div x.d)

\* Math.round: the nearest integer, halves towards +Infinity
MathRound(x) ==
    IF x.d = 0 THEN x ELSE NumOfInt(RoundHalfUpDiv(x.n, x.d))

NumLessEq(a, b) == a.n * b.d <= b.n * a.d

NumAbsDiff(a, b) == Rat(Abs(a.n * b.d - b.n * a.d), a.d * b.d)

----------------------------------------------------------------------------
(* Scheduler.getSnapPosition *)

\* duration.total({ unit: 'millisecond', relativeTo }): the milliseconds from
\* midnight of relativeTo to the end of the duration laid out from it, as
\* whole days and milliseconds of the last day
DurationTotalMs(D, relativeTo) ==
    ShiftInstant(
        Inst(EpochDaysOf(CalendarDateAdd(relativeTo, D["year"], D["month"],
                                         D["week"], D["day"]))
                - EpochDaysOf(relativeTo), 0),
        0, DurationTimeMs(D))

\* (a.d days + a.ms) / (b.d days + b.ms), both counted in the unit g
TotalRatioIn(a, b, g) ==
    Rat(a.d * (MS_PER_DAY \div g) + a.ms \div g,
        b.d * (MS_PER_DAY \div g) + b.ms \div g)

\* snap_ms / step_ms
TotalRatio(a, b) == TotalRatioIn(a, b, GCD(GCD(MS_PER_DAY, a.ms), b.ms))

Unit_snap == <<"u", "n", "i", "t">>
OneDay_snap == <<"1", "d">>

\* gantt.options.snap_at || gantt.config.view_mode.snap_at || '1d'; the
\* empty string stands for an undefined snap_at (both are falsy)
DefaultSnap(g) ==
    IF g.options.snap_at # <<>> THEN g.options.snap_at
    ELSE IF g.config.view_mode.snap_at # <<>> THEN g.config.view_mode.snap_at
    ELSE OneDay_snap

SnapDuration(g) ==
    IF DefaultSnap(g) # Unit_snap THEN parseDuration(DefaultSnap(g))
    ELSE parseDuration(g.config.view_mode.step)

\* (snap_ms / step_ms) * gantt.config.step.column_width
SnapPixels(g, relativeTo) ==
    NumMul(TotalRatio(DurationTotalMs(SnapDuration(g), relativeTo),
                      DurationTotalMs(parseDuration(g.config.view_mode.step),
                                      relativeTo)),
           NumOfInt(g.config.step.column_width))

SnapTo(dx, snap_pixels) == NumMul(MathRound(NumDiv(dx, snap_pixels)), snap_pixels)

\* getSnapPosition(dx) called on the date relativeTo
getSnapPosition(dx, g, relativeTo) == SnapTo(dx, SnapPixels(g, relativeTo))

----------------------------------------------------------------------------
(* Gantt: options, view modes and the step configuration *)

ViewMode(name, step, column_width, snap_at) ==
    [name |-> name, step |-> step, column_width |-> column_width,
     snap_at |-> snap_at]

\* DEFAULT_VIEW_MODES; column_width 0 and snap_at '' stand for undefined
DEFAULT_VIEW_MODES ==
    { ViewMode("Hour", <<"1", "h">>, 0, <<>>),
      ViewMode("Quarter Day", <<"6", "h">>, 0, <<>>),
      ViewMode("Half Day", <<"1", "2", "h">>, 0, <<>>),
      ViewMode("Day", <<"1", "d">>, 0, <<>>),
      ViewMode("Week", <<"7", "d">>, 140, <<>>),
      ViewMode("Month", <<"1", "m">>, 120, <<"7", "d">>),
      ViewMode("Year", <<"1", "y">>, 120, <<"3", "0", "d">>) }

\* the options of the chart that the model reads
GanttOptions(snap_at, column_width, move_dependencies) ==
    [snap_at |-> snap_at, column_width |-> column_width,
     move_dependencies |-> move_dependencies]

StepConfigOf(spec) ==
    IF spec.value <= 0 THEN [interval |-> 1, unit |-> "day"]
    ELSE [interval |-> spec.value, unit |-> spec.unit]

\* this.options.column_width || mode.column_width || 45
ColumnWidthOr(options, mode) ==
    IF options.column_width # 0 THEN options.column_width
    ELSE IF mode.column_width # 0 THEN mode.column_width
    ELSE 45

ColumnWidthOf(width) == IF width <= 0 THEN 45 ELSE width

\* Gantt.updateViewMode(mode): config.step
updateViewMode(options, mode) ==
    [interval |-> StepConfigOf(parseDurationString(mode.step)).interval,
     unit |-> StepConfigOf(parseDurationString(mode.step)).unit,
     column_width |-> ColumnWidthOf(ColumnWidthOr(options, mode))]

\* the chart after changeViewMode(mode)
Gantt(options, mode) ==
    [options |-> options,
     config |-> [view_mode |-> mode, step |-> updateViewMode(options, mode)]]

----------------------------------------------------------------------------
(* The scheduler snapping raw deltas under sampled view modes and options, *)
(* while the wall clock advances                                           *)

CustomViewModes ==
    { ViewMode("Two Days", <<"2", "d">>, 50, <<"u", "n", "i", "t">>),
      ViewMode("Half Hours", <<"3", "0", "m", "i", "n">>, 7, <<"1", "5", "m", "i", "n">>),
      ViewMode("No Step", <<"0", "d">>, 0, <<>>),
      ViewMode("No Snap", <<"1", "d">>, -5, <<"0", "d">>) }

SnapAtSamples == { <<>>, <<"u", "n", "i", "t">>, <<"1", "2", "h">> }
ColumnWidthSamples == {0, 30, -5}
DxSamples == {-68, -23, -22, -15, 0, 15, 22, 23, 100, 2000}

ClockSamples ==
    { [year |-> 2023, month |-> 1, day |-> 31],
      [year |-> 2023, month |-> 2, day |-> 1],
      [year |-> 2024, month |-> 2, day |-> 1] }

SnapInit ==
    /\ op = "init"
    /\ argA = Null
    /\ argB = Null
    /\ argQty = 0
    /\ argUnit = "none"
    /\ out = Null
    /\ out2 = Null
    /\ num = 0
    /\ num2 = 0
    /\ argStr = <<>>
    /\ EmptyStore
    /\ viewport = Null
    /\ gantt = Null
    /\ today \in ClockSamples
    /\ opts = Null
    /\ EmptyDrag

\* new Gantt(..., options) followed by changeViewMode(mode)
ChangeViewMode(options, mode) ==
    /\ op = "init"
    /\ op' = "changeViewMode"
    /\ gantt' = Gantt(options, mode)
    /\ UNCHANGED <<argA, argB, argQty, argUnit, out, out2, num, num2, argStr>>
    /\ UNCHANGED storeVars
    /\ UNCHANGED <<viewport, today, opts>>
    /\ UNCHANGED dragVars

\* the date changes
ClockAdvance(date) ==
    /\ op \in {"changeViewMode", "getSnapPosition"}
    /\ CompareISODate(today, date) < 0
    /\ today' = date
    /\ UNCHANGED <<op, argA, argB, argQty, argUnit, out, out2, num, num2, argStr>>
    /\ UNCHANGED storeVars
    /\ UNCHANGED <<viewport, gantt, opts>>
    /\ UNCHANGED dragVars

\* out = scheduler.getSnapPosition(dx)
GetSnapPosition(dx) ==
    /\ op = "changeViewMode"
    /\ op' = "getSnapPosition"
    /\ opts' = [dx |-> dx, today |-> today]
    /\ out' = getSnapPosition(NumOfInt(dx), gantt, today)
    /\ UNCHANGED <<argA, argB, argQty, argUnit, out2, num, num2, argStr>>
    /\ UNCHANGED storeVars
    /\ UNCHANGED <<viewport, gantt, today>>
    /\ UNCHANGED dragVars

\* out2 = scheduler.getSnapPosition(dx) for the same dx
GetSnapPositionAgain ==
    /\ op = "getSnapPosition"
    /\ op' = "getSnapPosition_again"
    /\ out2' = getSnapPosition(NumOfInt(opts.dx), gantt, today)
    /\ UNCHANGED <<argA, argB, argQty, argUnit, out, num, num2, argStr>>
    /\ UNCHANGED storeVars
    /\ UNCHANGED uiVars
    /\ UNCHANGED dragVars

SnapNext ==
    \/ op = "init" /\ \E snap_at \in SnapAtSamples, column_width \in ColumnWidthSamples,
                         mode \in DEFAULT_VIEW_MODES \cup CustomViewModes :
                            ChangeViewMode(GanttOptions(snap_at, column_width, TRUE), mode)
    \/ \E date \in ClockSamples : ClockAdvance(date)
    \/ \E dx \in DxSamples : GetSnapPosition(dx)
    \/ GetSnapPositionAgain

SpecSnap == SnapInit /\ [][SnapNext]_vars

----------------------------------------------------------------------------
(* The tasks affected by a move: Scheduler.getAffectedTaskIds over          *)
(* Tasks.getAllDependentIds, and Gantt.get_all_dependent_tasks.  Each       *)
(* traversal is a loop; one action is one iteration of it.                  *)

\* the uids of the first n tasks that are in the set ids, in task order
RECURSIVE UidsInOrder(_, _, _)
UidsInOrder(ts, ids, n) ==
    IF n = 0 THEN <<>>
    ELSE IF ts[n].uid \in ids
            /\ \A i \in 1 .. n - 1 : ts[i].uid # ts[n].uid
         THEN Append(UidsInOrder(ts, ids, n - 1), ts[n].uid)
         ELSE UidsInOrder(ts, ids, n - 1)

\* Tasks.getDependentIds(id): Array.from of the Set, in insertion order
getDependentIds(ts, deps, id) ==
    IF id \in DOMAIN deps THEN UidsInOrder(ts, deps[id], Len(ts)) ELSE <<>>

\* the local variables of getAllDependentIds, and the ids whose dependents
\* the loop has read so far
Traversal(taskId, result, toProcess, processed, expanded) ==
    [taskId |-> taskId, result |-> result, toProcess |-> toProcess,
     processed |-> processed, expanded |-> expanded]

NotIn(list, ids) ==
    LET Unprocessed(depId) == depId \notin ids
    IN  SelectSeq(list, Unprocessed)

\* a walk that adds the direct dependents but does not queue them
ToProcessAfter_notQueued(toProcess, pushed) == toProcess

\* toProcess.push(depId) for each depId pushed
ToProcessAfter(toProcess, pushed) == toProcess \o pushed

\* the for loop over getDependentIds(currentId)
TraversalPush(t, currentId, pushed) ==
    Traversal(t.taskId, t.result \o pushed, ToProcessAfter(Tail(t.toProcess), pushed),
              t.processed \cup {currentId}, Append(t.expanded, currentId))

\* one iteration of the while loop of getAllDependentIds
TraversalIteration(t, ts, deps) ==
    IF Head(t.toProcess) \in t.processed
    THEN [t EXCEPT !.toProcess = Tail(t.toProcess)]
    ELSE TraversalPush(t, Head(t.toProcess),
            NotIn(getDependentIds(ts, deps, Head(t.toProcess)),
                  t.processed \cup {Head(t.toProcess)}))

\* Gantt.setup_dependencies: dependency_map[d], the uids of the tasks that
\* list d, one entry per listing
RECURSIVE DependencyMapAt(_, _, _)
DependencyMapAt(ts, d, n) ==
    IF n = 0 THEN <<>>
    ELSE DependencyMapAt(ts, d, n - 1)
            \o [j \in 1 .. Cardinality({ k \in 1 .. Len(ts[n].dependencies) :
                                          ts[n].dependencies[k] = d }) |-> ts[n].uid]

\* the entry that concat(undefined) appends
Undefined == <<"undefined">>

\* acc.concat(this.dependency_map[curr])
ConcatDependents(acc, ts, curr) ==
    IF DependencyMapAt(ts, curr, Len(ts)) = <<>> THEN Append(acc, Undefined)
    ELSE acc \o DependencyMapAt(ts, curr, Len(ts))

\* to_process.reduce(...)
RECURSIVE ReduceDependents(_, _, _)
ReduceDependents(to_process, ts, n) ==
    IF n = 0 THEN <<>>
    ELSE ConcatDependents(ReduceDependents(to_process, ts, n - 1), ts, to_process[n])

Range(list) == { list[i] : i \in 1 .. Len(list) }

\* the local variables of get_all_dependent_tasks
LegacyTraversal(taskId, result, to_process, expanded) ==
    [taskId |-> taskId, result |-> result, toProcess |-> to_process,
     processed |-> {}, expanded |-> expanded]

\* one iteration of the while loop of get_all_dependent_tasks
LegacyIterationOf(t, deps) ==
    LegacyTraversal(t.taskId, t.result \o deps, NotIn(deps, Range(t.toProcess)),
                    t.expanded \o t.toProcess)

LegacyIteration(t, ts) ==
    LegacyIterationOf(t, ReduceDependents(t.toProcess, ts, Len(t.toProcess)))

\* out.filter(Boolean)
FilterBoolean(list) == NotIn(list, {Undefined, <<>>})

----------------------------------------------------------------------------
(* Dependency graphs over three tasks, and the traversals from each id *)

MaxExpanded == 6

TaskA == <<"a">>
TaskB == <<"b">>
TaskC == <<"c">>
TaskZ == <<"z">>

DependencyLists ==
    { <<>>, <<TaskA>>, <<TaskB>>, <<TaskC>>, <<TaskA, TaskB>>, <<TaskZ>> }

GraphLists ==
    { << WithEnd(TaskA, Jan10, Jan20Noon, da), WithEnd(TaskB, Jan10, Jan20Noon, db),
         WithEnd(TaskC, Jan10, Jan20Noon, dc) >> :
        da \in DependencyLists, db \in DependencyLists, dc \in DependencyLists }

DepsInit == TasksInit

\* scheduler.getAffectedTaskIds(taskId) up to the loop of getAllDependentIds
GetAffectedTaskIds(taskId, move_dependencies) ==
    /\ op = "load"
    /\ op' = IF move_dependencies THEN "getAllDependentIds" ELSE "getAffectedTaskIds"
    /\ gantt' = [options |-> GanttOptions(<<>>, 0, move_dependencies)]
    /\ opts' = Traversal(taskId, <<>>, IF move_dependencies THEN <<taskId>> ELSE <<>>,
                         {}, <<>>)
    /\ out' = IF move_dependencies THEN Null ELSE [ids |-> <<taskId>>]
    /\ UNCHANGED <<argA, argB, argQty, argUnit, out2, num, num2, argStr>>
    /\ UNCHANGED storeVars
    /\ UNCHANGED <<viewport, today>>
    /\ UNCHANGED dragVars

\* one iteration of the loop of getAllDependentIds
GetAllDependentIdsStep ==
    /\ op = "getAllDependentIds"
    /\ opts.toProcess # <<>>
    /\ opts' = TraversalIteration(opts, tasks, dependents)
    /\ UNCHANGED <<op, argA, argB, argQty, argUnit, out, out2, num, num2, argStr>>
    /\ UNCHANGED storeVars
    /\ UNCHANGED <<viewport, gantt, today>>
    /\ UNCHANGED dragVars

\* the loop is left; getAffectedTaskIds returns [taskId, ...result]
GetAffectedTaskIdsReturn ==
    /\ op = "getAllDependentIds"
    /\ opts.toProcess = <<>>
    /\ op' = "getAffectedTaskIds"
    /\ out' = [ids |-> <<opts.taskId>> \o opts.result]
    /\ UNCHANGED <<argA, argB, argQty, argUnit, out2, num, num2, argStr>>
    /\ UNCHANGED storeVars
    /\ UNCHANGED uiVars
    /\ UNCHANGED dragVars

\* gantt.get_all_dependent_tasks(task_id) up to its loop
GetAllDependentTasks(task_id) ==
    /\ op = "load"
    /\ op' = "get_all_dependent_tasks"
    /\ opts' = LegacyTraversal(task_id, <<>>, <<task_id>>, <<>>)
    /\ UNCHANGED <<argA, argB, argQty, argUnit, out, out2, num, num2, argStr>>
    /\ UNCHANGED storeVars
    /\ UNCHANGED <<viewport, gantt, today>>
    /\ UNCHANGED dragVars

\* one iteration of the loop of get_all_dependent_tasks; the walk is followed
\* until it has read MaxExpanded entries
GetAllDependentTasksStep ==
    /\ op = "get_all_dependent_tasks"
    /\ opts.toProcess # <<>>
    /\ Len(opts.expanded) < MaxExpanded
    /\ opts' = LegacyIteration(opts, tasks)
    /\ UNCHANGED <<op, argA, argB, argQty, argUnit, out, out2, num, num2, argStr>>
    /\ UNCHANGED storeVars
    /\ UNCHANGED <<viewport, gantt, today>>
    /\ UNCHANGED dragVars

GetAllDependentTasksReturn ==
    /\ op = "get_all_dependent_tasks"
    /\ opts.toProcess = <<>>
    /\ op' = "get_all_dependent_tasks_return"
    /\ out' = [ids |-> FilterBoolean(opts.result)]
    /\ UNCHANGED <<argA, argB, argQty, argUnit, out2, num, num2, argStr>>
    /\ UNCHANGED storeVars
    /\ UNCHANGED uiVars
    /\ UNCHANGED dragVars

DepsNext ==
    \/ op = "init" /\ \E list \in GraphLists : Load(list)
    \/ \E taskId \in {TaskA, TaskB, TaskC, TaskZ}, move_dependencies \in BOOLEAN :
            GetAffectedTaskIds(taskId, move_dependencies)
    \/ GetAllDependentIdsStep
    \/ GetAffectedTaskIdsReturn
    \/ \E task_id \in {TaskA, TaskB, TaskC, TaskZ} : GetAllDependentTasks(task_id)
    \/ GetAllDependentTasksStep
    \/ GetAllDependentTasksReturn

SpecDeps == DepsInit /\ [][DepsNext]_vars

----------------------------------------------------------------------------
(* Viewport: the origin and the scale between instants and pixels *)

EpochZero == Inst(0, 0)

\* a difference that counts whole days only
EpochMsDiff_wholeDays(a, b) == (a.d - b.d) * MS_PER_DAY

\* a.epochMilliseconds - b.epochMilliseconds
EpochMsDiff(a, b) == (a.d - b.d) * MS_PER_DAY + (a.ms - b.ms)

\* (span.d days + span.ms) / columnWidth, the span counted in the unit g
SpanOverWidth(span, columnWidth, g) ==
    NumMul(NumOfInt(g),
           Rat(span.d * (MS_PER_DAY \div g) + span.ms \div g, columnWidth))

\* msPerInterval / this.columnWidth, msPerInterval being the milliseconds
\* from epoch 0 to add(epoch 0, stepInterval, stepUnit)
MsPerPixel(stepInterval, stepUnit, columnWidth) ==
    SpanOverWidth(add(EpochZero, stepInterval, stepUnit), columnWidth,
                  GCD(MS_PER_DAY, add(EpochZero, stepInterval, stepUnit).ms))

\* _updateScale
UpdateScale(v) ==
    [v EXCEPT !.msPerPixel = MsPerPixel(v.stepInterval, v.stepUnit, v.columnWidth)]

\* the options of the constructor; columnWidth 0, stepInterval 0 and
\* stepUnit "" stand for undefined (all falsy)
ViewportOptions(origin, columnWidth, stepInterval, stepUnit) ==
    [origin |-> origin, columnWidth |-> columnWidth,
     stepInterval |-> stepInterval, stepUnit |-> stepUnit]

\* new Viewport(options); Raised without an origin
Viewport(options) ==
    IF options.origin = Null THEN Raised
    ELSE UpdateScale(
            [origin |-> options.origin,
             columnWidth |-> IF options.columnWidth # 0 THEN options.columnWidth ELSE 45,
             stepInterval |-> IF options.stepInterval # 0 THEN options.stepInterval ELSE 1,
             stepUnit |-> IF options.stepUnit # "" THEN options.stepUnit ELSE "day",
             msPerPixel |-> NaN])

\* the arguments of setScale; hasInterval and hasUnit tell whether
\* stepInterval and stepUnit are passed
ScaleArguments(columnWidth, hasInterval, stepInterval, hasUnit, stepUnit) ==
    [columnWidth |-> columnWidth, hasInterval |-> hasInterval,
     stepInterval |-> stepInterval, hasUnit |-> hasUnit, stepUnit |-> stepUnit]

\* a setScale that leaves msPerPixel as it was
setScale_scaleKept(v, args) ==
    [v EXCEPT !.columnWidth = args.columnWidth,
              !.stepInterval = IF args.hasInterval THEN args.stepInterval ELSE @,
              !.stepUnit = IF args.hasUnit THEN args.stepUnit ELSE @]

setScale(v, args) ==
    UpdateScale([v EXCEPT !.columnWidth = args.columnWidth,
                          !.stepInterval = IF args.hasInterval THEN args.stepInterval ELSE @,
                          !.stepUnit = IF args.hasUnit THEN args.stepUnit ELSE @])

setOrigin(v, instant) == [v EXCEPT !.origin = instant]

\* msOffset / this.msPerPixel
dateToX(v, instant) ==
    NumDiv(NumOfInt(EpochMsDiff(instant, v.origin)), v.msPerPixel)

\* Temporal.Instant.fromEpochMilliseconds(Math.round(origin.epochMilliseconds
\* + msOffset)): a RangeError unless the number is finite.  The origin is a
\* whole number of milliseconds, so the sum is rounded by rounding msOffset.
InstantAtOffset(origin, msOffset) ==
    IF ~IsFinite(msOffset) THEN Raised
    ELSE ShiftInstant(origin, 0, MathRound(msOffset).n)

xToDate(v, x) == InstantAtOffset(v.origin, NumMul(x, v.msPerPixel))

\* shiftOrigin(deltaPixels): the origin is kept when the call throws
shiftOrigin(v, deltaPixels) ==
    IF InstantAtOffset(v.origin, NumMul(deltaPixels, v.msPerPixel)) = Raised THEN v
    ELSE [v EXCEPT !.origin = InstantAtOffset(@, NumMul(deltaPixels, v.msPerPixel))]

----------------------------------------------------------------------------
(* A viewport built from sampled options, rescaled, moved and queried *)

OriginSamples ==
    { Inst(EpochDays(2024, 1, 10), 0),
      Inst(EpochDays(2024, 2, 28), 13 * MS_PER_HOUR + 1),
      Inst(EpochDays(1969, 12, 31), MS_PER_DAY - 1) }

\* the instants looked up: at most a few days from a sampled origin
OffsetSamples == { 0, 1, -1, 999, 3 * MS_PER_HOUR + 7, -(2 * MS_PER_DAY) - 12345 }

\* columnWidth, stepInterval, stepUnit
ScaleSamples ==
    { <<45, 1, "day">>, <<45, 1, "hour">>, <<140, 7, "day">>, <<120, 1, "month">>,
      <<120, 1, "year">>, <<7, 1, "hour">>, <<7, 1, "day">>, <<30, 15, "minute">>,
      <<256, 1, "hour">>,
      <<0, 1, "day">>, <<-5, 1, "day">>, <<45, 0, "day">>, <<0, 0, "">> }

SetScaleSamples ==
    { ScaleArguments(s[1], TRUE, s[2], TRUE, s[3]) : s \in ScaleSamples \ {<<0, 0, "">>} }
        \cup { ScaleArguments(w, FALSE, 0, FALSE, "") : w \in {60, 0} }

DeltaPixelSamples == {-3, 1, 2, 10}

\* the product of two integers is one the model's integers can hold
ProductFits(a, b) == a = 0 \/ Abs(b) <= 2147483647 \div Abs(a)

ViewportInit == TasksInit

\* viewport = new Viewport(options)
NewViewport(options) ==
    /\ op = "init"
    /\ op' = "constructor"
    /\ viewport' = IF Viewport(options) = Raised THEN Null ELSE Viewport(options)
    /\ out' = IF Viewport(options) = Raised THEN Raised ELSE Null
    /\ opts' = options
    /\ UNCHANGED <<argA, argB, argQty, argUnit, out2, num, num2, argStr>>
    /\ UNCHANGED storeVars
    /\ UNCHANGED <<gantt, today>>
    /\ UNCHANGED dragVars

SetScale(args) ==
    /\ viewport # Null
    /\ op \in {"constructor", "setOrigin", "shiftOrigin"}
    /\ op' = "setScale"
    /\ viewport' = setScale(viewport, args)
    /\ opts' = args
    /\ UNCHANGED <<argA, argB, argQty, argUnit, out, out2, num, num2, argStr>>
    /\ UNCHANGED storeVars
    /\ UNCHANGED <<gantt, today>>
    /\ UNCHANGED dragVars

SetOrigin(instant) ==
    /\ viewport # Null
    /\ op \in {"constructor", "setScale", "shiftOrigin"}
    /\ op' = "setOrigin"
    /\ viewport' = setOrigin(viewport, instant)
    /\ opts' = [instant |-> instant]
    /\ UNCHANGED <<argA, argB, argQty, argUnit, out, out2, num, num2, argStr>>
    /\ UNCHANGED storeVars
    /\ UNCHANGED <<gantt, today>>
    /\ UNCHANGED dragVars

\* shiftOrigin(deltaPixels), from a sampled origin
ShiftOrigin(deltaPixels) ==
    /\ viewport # Null
    /\ op \in {"constructor", "setScale", "setOrigin"}
    /\ viewport.origin \in OriginSamples
    /\ ProductFits(2 * deltaPixels, viewport.msPerPixel.n)
    /\ op' = "shiftOrigin"
    /\ viewport' = shiftOrigin(viewport, NumOfInt(deltaPixels))
    /\ opts' = [deltaPixels |-> deltaPixels, origin |-> viewport.origin]
    /\ UNCHANGED <<argA, argB, argQty, argUnit, out, out2, num, num2, argStr>>
    /\ UNCHANGED storeVars
    /\ UNCHANGED <<gantt, today>>
    /\ UNCHANGED dragVars

\* shiftOrigin(-deltaPixels), after shiftOrigin(deltaPixels)
ShiftOriginBack ==
    /\ op = "shiftOrigin"
    /\ op' = "shiftOrigin_back"
    /\ viewport' = shiftOrigin(viewport, NumOfInt(-opts.deltaPixels))
    /\ UNCHANGED <<argA, argB, argQty, argUnit, out, out2, num, num2, argStr>>
    /\ UNCHANGED storeVars
    /\ UNCHANGED <<gantt, today, opts>>
    /\ UNCHANGED dragVars

\* out = viewport.dateToX(argA), argA being msOffset after the origin
DateToX(msOffset) ==
    /\ viewport # Null
    /\ op \in {"constructor", "setScale", "setOrigin", "shiftOrigin"}
    /\ op' = "dateToX"
    /\ argA' = ShiftInstant(viewport.origin, 0, msOffset)
    /\ out' = dateToX(viewport, ShiftInstant(viewport.origin, 0, msOffset))
    /\ UNCHANGED <<argB, argQty, argUnit, out2, num, num2, argStr>>
    /\ UNCHANGED storeVars
    /\ UNCHANGED uiVars
    /\ UNCHANGED dragVars

\* out2 = viewport.xToDate(out)
XToDate ==
    /\ op = "dateToX"
    /\ op' = "xToDate"
    /\ out2' = xToDate(viewport, out)
    /\ UNCHANGED <<argA, argB, argQty, argUnit, out, num, num2, argStr>>
    /\ UNCHANGED storeVars
    /\ UNCHANGED uiVars
    /\ UNCHANGED dragVars

ViewportNext ==
    \/ op = "init" /\ \E origin \in OriginSamples \cup {Null}, s \in ScaleSamples :
                        NewViewport(ViewportOptions(origin, s[1], s[2], s[3]))
    \/ \E args \in SetScaleSamples : SetScale(args)
    \/ \E instant \in OriginSamples : SetOrigin(instant)
    \/ \E deltaPixels \in DeltaPixelSamples : ShiftOrigin(deltaPixels)
    \/ ShiftOriginBack
    \/ \E msOffset \in OffsetSamples : DateToX(msOffset)
    \/ XToDate

SpecViewport == ViewportInit /\ [][ViewportNext]_vars

----------------------------------------------------------------------------
(* Drag and resize: Bar, Bars and Scheduler.commitDateChange *)

\* a + b and a - b of two finite numbers
NumAdd(a, b) == Rat(a.n * b.d + b.n * a.d, a.d * b.d)
NumSub(a, b) == Rat(a.n * b.d - b.n * a.d, a.d * b.d)

\* the x and width attributes of bar.$bar and the values the gesture keeps on it
BarRect(x, width, ox, owidth, finaldx) ==
    [x |-> x, width |-> width, ox |-> ox, owidth |-> owidth, finaldx |-> finaldx]

\* new Bar(gantt, task), drawBar: x = getX(), width = getWidth()
Bar(v, task) ==
    BarRect(dateToX(v, task.start),
            NumSub(dateToX(v, task.end), dateToX(v, task.start)),
            NumOfInt(0), NumOfInt(0), NumOfInt(0))

\* Bars.render: one bar per task of tasks.getAll()
Bars_render(v, ts) == [i \in 1 .. Len(ts) |-> Bar(v, ts[i])]

\* Bars.get(id): _byTaskId holds the bar set last for the uid; 0 if none
RECURSIVE Bars_get(_, _, _)
Bars_get(ts, id, n) ==
    IF n = 0 THEN 0
    ELSE IF ts[n].uid = id THEN n
    ELSE Bars_get(ts, id, n - 1)

\* depXs.every((depX) => x >= depX); a dependency without a bar gives -Infinity
ValidX(bs, ts, i, x) ==
    \A k \in 1 .. Len(ts[i].dependencies) :
        Bars_get(ts, ts[i].dependencies[k], Len(ts)) # 0
            => NumLessEq(bs[Bars_get(ts, ts[i].dependencies[k], Len(ts))].x, x)

\* a width that is set as it is given
SafeWidth_unclamped(width) == width

\* Math.max(0, width)
SafeWidth(width) == IF NumLessEq(NumOfInt(0), width) THEN width ELSE NumOfInt(0)

\* the argument of updateBarPosition; has* is false for a field left null
Position(hasX, x, hasWidth, width) ==
    [hasX |-> hasX, x |-> x, hasWidth |-> hasWidth, width |-> width]

\* Bar.updateBarPosition({ x, width }) on the bar of task i
updateBarPosition(bs, ts, i, position) ==
    IF position.hasX /\ ~ValidX(bs, ts, i, position.x) THEN bs
    ELSE [bs EXCEPT ![i] =
            [@ EXCEPT !.x = IF position.hasX THEN position.x ELSE @,
                      !.width = IF position.hasWidth THEN SafeWidth(position.width)
                                ELSE @]]

\* Bar.computeStartEndFromPosition
computeStartEndFromPosition(v, bar) ==
    [newStart |-> xToDate(v, bar.x), newEnd |-> xToDate(v, NumAdd(bar.x, bar.width))]

\* a comparison that looks at the start only
Changed_startOnly(task, newStart, newEnd) == InstantCompare(task.start, newStart) # 0

\* const changed = compare(task.start, newStart) !== 0 || compare(task.end, newEnd) !== 0
Changed(task, newStart, newEnd) ==
    \/ InstantCompare(task.start, newStart) # 0
    \/ InstantCompare(task.end, newEnd) # 0

\* triggerEvent('date_change', [task, newStart, add(newEnd, -1, 'second')])
DateChange(task, start, end) ==
    [name |-> "date_change", task |-> task, start |-> start, end |-> end]

\* Scheduler.commitDateChange(task, newStart, newEnd): the task after the
\* call and the events triggered by it
commitDateChange(task, newStart, newEnd) ==
    IF Changed(task, newStart, newEnd)
    THEN [task |-> [task EXCEPT !.start = newStart, !.end = newEnd],
          events |-> << DateChange([task EXCEPT !.start = newStart, !.end = newEnd],
                                   newStart, add(newEnd, -1, "second")) >>]
    ELSE [task |-> task, events |-> <<>>]

\* Gantt.commitBarDateChange(bar, newStart, newEnd): the commit is delegated
\* to the scheduler with the task of the bar
commitBarDateChange(task, newStart, newEnd) == commitDateChange(task, newStart, newEnd)

\* the uids of the tasks that list id as a dependency, each once, in task order
DirectDependents(ts, id) ==
    UidsInOrder(ts, { ts[i].uid : i \in { k \in 1 .. Len(ts) :
                                            id \in Range(ts[k].dependencies) } },
                Len(ts))

\* breadth-first traversal of the dependency-inverse graph, each node visited
\* at most once
RECURSIVE transitiveDependents(_, _, _, _)
transitiveDependents(ts, queue, visited, result) ==
    IF queue = <<>> THEN result
    ELSE transitiveDependents(ts,
            Tail(queue) \o NotIn(DirectDependents(ts, Head(queue)), visited),
            visited \cup Range(DirectDependents(ts, Head(queue))),
            result \o NotIn(DirectDependents(ts, Head(queue)), visited))

\* Gantt.getAllDependentTasks(id): the transitive dependents of the task
getAllDependentTasks(ts, id) == transitiveDependents(ts, <<id>>, {id}, <<>>)

\* Bars._dragState
DragState(type, startX, parentBarId, affected, isDragging) ==
    [type |-> type, startX |-> startX, parentBarId |-> parentBarId,
     bars |-> affected, dragging |-> isDragging]

\* the parent and, with move_dependencies, its dependents
BarIds(ts, g, parentBarId) ==
    IF g.options.move_dependencies
    THEN <<parentBarId>> \o getAllDependentTasks(ts, parentBarId)
    ELSE <<parentBarId>>

\* barIds.map((id) => this.get(id)).filter(Boolean): the bars as positions
RECURSIVE BarsOf(_, _, _)
BarsOf(ts, barIds, n) ==
    IF n = 0 THEN <<>>
    ELSE IF Bars_get(ts, barIds[n], Len(ts)) = 0 THEN BarsOf(ts, barIds, n - 1)
    ELSE Append(BarsOf(ts, barIds, n - 1), Bars_get(ts, barIds[n], Len(ts)))

\* $bar.ox = $bar.getX(), $bar.owidth = $bar.getWidth(), $bar.finaldx = 0
StoreInitial(bs, affected) ==
    [i \in 1 .. Len(bs) |->
        IF i \in Range(affected)
        THEN BarRect(bs[i].x, bs[i].width, bs[i].x, bs[i].width, NumOfInt(0))
        ELSE bs[i]]

\* Bars._startDrag on a bar wrapper or one of its resize handles
startDrag(bs, ts, g, parentBarId, dragType, startX) ==
    [bars |-> StoreInitial(bs, BarsOf(ts, BarIds(ts, g, parentBarId),
                                      Len(BarIds(ts, g, parentBarId)))),
     dragState |-> DragState(dragType, startX, parentBarId,
                             BarsOf(ts, BarIds(ts, g, parentBarId),
                                    Len(BarIds(ts, g, parentBarId))),
                             FALSE),
     dragging |-> "false"]

\* a threshold that a distance of 10 pixels passes
PastThreshold_atTen(rawDx) == Abs(rawDx) >= 10

\* Math.abs(rawDx) > 10
PastThreshold(rawDx) == Abs(rawDx) > 10

\* the update of one affected bar for the snapped delta dx
MoveBar(bs, ts, g, ds, dx, i) ==
    IF ds.type = "resize-left"
    THEN IF ts[i].uid = ds.parentBarId
         THEN updateBarPosition([bs EXCEPT ![i].finaldx = dx], ts, i,
                                Position(TRUE, NumAdd(bs[i].ox, dx),
                                         TRUE, NumSub(bs[i].owidth, dx)))
         ELSE updateBarPosition([bs EXCEPT ![i].finaldx = dx], ts, i,
                                Position(TRUE, NumAdd(bs[i].ox, dx), FALSE, NumOfInt(0)))
    ELSE IF ds.type = "resize-right"
    THEN IF ts[i].uid = ds.parentBarId
         THEN updateBarPosition([bs EXCEPT ![i].finaldx = dx], ts, i,
                                Position(FALSE, NumOfInt(0),
                                         TRUE, NumAdd(bs[i].owidth, dx)))
         ELSE [bs EXCEPT ![i].finaldx = dx]
    ELSE IF ~g.options.readonly /\ ~g.options.readonly_dates
         THEN updateBarPosition([bs EXCEPT ![i].finaldx = dx], ts, i,
                                Position(TRUE, NumAdd(bs[i].ox, dx), FALSE, NumOfInt(0)))
         ELSE [bs EXCEPT ![i].finaldx = dx]

\* for (const bar of bars): the first n affected bars updated in order
RECURSIVE MoveBars(_, _, _, _, _, _)
MoveBars(bs, ts, g, ds, dx, n) ==
    IF n = 0 THEN bs
    ELSE MoveBar(MoveBars(bs, ts, g, ds, dx, n - 1), ts, g, ds, dx, ds.bars[n])

\* Bars._onDragMove with a gesture in progress
onDragMove(bs, ts, g, ds, isDragging, currentX, relativeTo) ==
    IF ~ds.dragging /\ ~PastThreshold(currentX - ds.startX)
    THEN [bars |-> bs, dragState |-> ds, dragging |-> isDragging]
    ELSE [bars |-> MoveBars(bs, ts, g, ds,
                            getSnapPosition(NumOfInt(currentX - ds.startX), g, relativeTo),
                            Len(ds.bars)),
          dragState |-> [ds EXCEPT !.dragging = TRUE],
          dragging |-> "true"]

\* !$bar.finaldx: 0 and NaN are falsy
Falsy(x) == x.n = 0

\* one call of gantt.commitBarDateChange as the log keeps it
CommitCall(task, position, result) ==
    [uid |-> task.uid, before |-> task, newStart |-> position.newStart,
     newEnd |-> position.newEnd, after |-> result.task, events |-> result.events]

\* the tasks and the log after the commit of the bar of task i
CommittedWith(acc, i, position, result) ==
    [tasks |-> [acc.tasks EXCEPT ![i] = result.task],
     calls |-> Append(acc.calls, CommitCall(acc.tasks[i], position, result))]

Committed(acc, i, position) ==
    CommittedWith(acc, i, position,
                  commitBarDateChange(acc.tasks[i], position.newStart, position.newEnd))

\* for (const bar of bars) of _endDrag: the first n affected bars committed
RECURSIVE CommitBars(_, _, _, _, _)
CommitBars(acc, bs, v, affected, n) ==
    IF n = 0 THEN acc
    ELSE IF Falsy(bs[affected[n]].finaldx) THEN CommitBars(acc, bs, v, affected, n - 1)
    ELSE Committed(CommitBars(acc, bs, v, affected, n - 1), affected[n],
                   computeStartEndFromPosition(v, bs[affected[n]]))

\* a gesture that is kept when it ends
DragStateAfterEnd_kept(ds) == ds

\* this._dragState = null
DragStateAfterEnd(ds) == Null

\* the state that _endDrag leaves after its commits
EndDragResult(committed, ds) ==
    [tasks |-> committed.tasks, calls |-> committed.calls,
     dragState |-> DragStateAfterEnd(ds), dragging |-> "null"]

\* Bars._endDrag
endDrag(ts, log, bs, v, ds, isDragging) ==
    IF ds = Null
    THEN [tasks |-> ts, calls |-> log, dragState |-> ds, dragging |-> isDragging]
    ELSE EndDragResult(CommitBars([tasks |-> ts, calls |-> log], bs, v, ds.bars,
                                  Len(ds.bars)), ds)

----------------------------------------------------------------------------
(* Gestures on a rendered chart: mousedown on a bar or a handle, mousemove, *)
(* mouseup on the svg and on the document, in any order                     *)

MaxGestures == 1
MaxMoves == 2

\* this.config.extend_by_units
extend_by_units == 10

\* the earliest start among the first n tasks (n >= 1)
RECURSIVE EarliestStart(_, _)
EarliestStart(ts, n) ==
    IF n = 1 THEN ts[1].start
    ELSE IF InstantCompare(ts[n].start, EarliestStart(ts, n - 1)) < 0 THEN ts[n].start
    ELSE EarliestStart(ts, n - 1)

\* setup_grid_range with infinite_padding: grid.start
GridStart(ts, step) ==
    add(floor(EarliestStart(ts, Len(ts)), step.unit), -extend_by_units, step.unit)

\* the options of a chart that is dragged on
DragOptions(snap_at, move_dependencies, readonly, readonly_dates) ==
    [snap_at |-> snap_at, column_width |-> 0, move_dependencies |-> move_dependencies,
     readonly |-> readonly, readonly_dates |-> readonly_dates]

DragOptionSamples ==
    { DragOptions(<<>>, TRUE, FALSE, FALSE),
      DragOptions(<<"6", "h">>, TRUE, FALSE, FALSE),
      DragOptions(<<>>, FALSE, FALSE, TRUE) }

DayMode == CHOOSE mode \in DEFAULT_VIEW_MODES : mode.name = "Day"

JanDay(day) == <<"2", "0", "2", "4", "-", "0", "1", "-">> \o day

\* a on the 10th and the 11th, b (after a) on the 11th, c (after a and b) on
\* the 13th
DragTaskLists ==
    { << WithEnd(TaskA, JanDay(<<"1", "0">>), JanDay(<<"1", "1">>), <<>>),
         WithEnd(TaskB, JanDay(<<"1", "1">>), JanDay(<<"1", "1">>), <<TaskA>>),
         WithEnd(TaskC, JanDay(<<"1", "3">>), JanDay(<<"1", "3">>), <<TaskA, TaskB>>) >> }

DragTypes == {"move", "resize-left", "resize-right"}
StartXSamples == {500}
CurrentXSamples == {490, 455, 365, 590}

\* what the gesture in progress has seen: the gestures and the moves so far,
\* the last pointer position, the largest distance from startX, and the bars
\* and tasks at the mousedown
Gesture(gestures, moves, currentX, reach, bs, ts) ==
    [gestures |-> gestures, moves |-> moves, currentX |-> currentX, reach |-> reach,
     bars |-> bs, tasks |-> ts]

DragInit == TasksInit

\* new Gantt(wrapper, tasks, options): the tasks loaded, the view mode set,
\* the viewport created at grid.start and the bars rendered
NewGantt(list, options, mode) ==
    /\ op = "init"
    /\ op' = "render"
    /\ LoadResult(list, LoadFrom(list, Len(list)))
    /\ gantt' = Gantt(options, mode)
    /\ viewport' = Viewport(ViewportOptions(GridStart(tasks', gantt'.config.step),
                                            gantt'.config.step.column_width,
                                            gantt'.config.step.interval,
                                            gantt'.config.step.unit))
    /\ bars' = Bars_render(viewport', tasks')
    /\ dragState' = Null
    /\ dragging' = "null"
    /\ calls' = <<>>
    /\ today' = [year |-> 2024, month |-> 1, day |-> 9]
    /\ opts' = Gesture(0, 0, 0, 0, bars', tasks')
    /\ UNCHANGED <<argA, argB, argQty, argUnit, out, out2, num, num2, argStr>>

\* Bar.drawResizeHandles: the left and right handles are drawn unless the
\* chart is read-only
HasHandles(g) == ~g.options.readonly /\ ~g.options.readonly_dates

\* mousedown on the bar wrapper of a task (move) or on one of its handles
SvgMouseDown(parentBarId, dragType, startX) ==
    /\ op # "init"
    /\ opts.gestures < MaxGestures
    /\ Bars_get(tasks, parentBarId, Len(tasks)) # 0
    /\ dragType # "move" => HasHandles(gantt)
    /\ op' = "mousedown"
    /\ \E started \in {startDrag(bars, tasks, gantt, parentBarId, dragType, startX)} :
            /\ bars' = started.bars
            /\ dragState' = started.dragState
            /\ dragging' = started.dragging
    /\ calls' = <<>>
    /\ opts' = Gesture(opts.gestures + 1, 0, startX, 0, bars, tasks)
    /\ UNCHANGED <<argA, argB, argQty, argUnit, out, out2, num, num2, argStr>>
    /\ UNCHANGED storeVars
    /\ UNCHANGED <<viewport, gantt, today>>

\* mousemove on the svg
SvgMouseMove(currentX) ==
    /\ op # "init"
    /\ op' = "mousemove"
    /\ IF dragState = Null
       THEN UNCHANGED <<bars, dragState, dragging, opts>>
       ELSE /\ opts.moves < MaxMoves
            /\ \E moved \in {onDragMove(bars, tasks, gantt, dragState, dragging,
                                          currentX, today)} :
                    /\ bars' = moved.bars
                    /\ dragState' = moved.dragState
                    /\ dragging' = moved.dragging
            /\ opts' = [opts EXCEPT !.moves = @ + 1, !.currentX = currentX,
                                    !.reach = Max(@, Abs(currentX - dragState.startX))]
    /\ UNCHANGED <<argA, argB, argQty, argUnit, out, out2, num, num2, argStr>>
    /\ UNCHANGED storeVars
    /\ UNCHANGED <<viewport, gantt, today, calls>>

\* the store and the gesture after Bars._endDrag
EndDrag ==
    /\ \E ended \in {endDrag(tasks, calls, bars, viewport, dragState, dragging)} :
            /\ tasks' = ended.tasks
            /\ calls' = ended.calls
            /\ dragState' = ended.dragState
            /\ dragging' = ended.dragging
    /\ UNCHANGED <<argA, argB, argQty, argUnit, out, out2, num, num2, argStr>>
    /\ UNCHANGED <<byId, dependents, rawTasks, loadRaised>>
    /\ UNCHANGED <<viewport, gantt, today, opts, bars>>

\* mouseup on the svg: this._endDrag()
SvgMouseUp ==
    /\ op # "init"
    /\ op' = "mouseup"
    /\ EndDrag

\* mouseup on the document: if (this._dragState) this._endDrag()
DocumentMouseUp ==
    /\ op # "init"
    /\ op' = "mouseup"
    /\ IF dragState # Null THEN EndDrag
       ELSE UNCHANGED <<argA, argB, argQty, argUnit, out, out2, num, num2, argStr,
                        tasks, byId, dependents, rawTasks, loadRaised,
                        viewport, gantt, today, opts, bars, dragState, dragging, calls>>

DragNext ==
    \/ op = "init" /\ \E list \in DragTaskLists, options \in DragOptionSamples :
                            NewGantt(list, options, DayMode)
    \/ op # "init" /\ \E parentBarId \in {TaskA, TaskB}, dragType \in DragTypes,
                            startX \in StartXSamples :
                            SvgMouseDown(parentBarId, dragType, startX)
    \/ op # "init" /\ \E currentX \in CurrentXSamples : SvgMouseMove(currentX)
    \/ SvgMouseUp
    \/ DocumentMouseUp

SpecDrag == DragInit /\ [][DragNext]_vars

----------------------------------------------------------------------------
(* C11 *)

\* the duration formatted last is a whole number of milliseconds in 1 .. 999
C11_SubSecond ==
    /\ op = "formatDuration"
    /\ opts.duration = DaysAndMs(0, opts.duration["millisecond"])
    /\ opts.duration["millisecond"] \in 1 .. 999

\* C11: with showMilliseconds false, formatDuration of a duration of 1 to
\* 999 milliseconds returns 'less than 1 second' in the long form and '<1s'
\* in the short form.
C11_SubSecondIsLessThanOneSecond ==
    (C11_SubSecond /\ ~opts.options.showMilliseconds)
        => /\ out = Null
           /\ argStr = IF opts.options.shortForm THEN <<"<", "1", "s">>
                        ELSE LessThanOneSecond

----------------------------------------------------------------------------
(* C12, C13, C14 *)

C12_NoSnapDefined ==
    /\ op = "getSnapPosition"
    /\ gantt.options.snap_at = <<>>
    /\ gantt.config.view_mode.snap_at = <<>>

\* C12: when neither the options nor the view mode define snap_at, the snap
\* width is one column width: getSnapPosition returns the multiple of the
\* column width nearest to the raw delta.
C12_SnapDefaultsToViewStep ==
    (C12_NoSnapDefined /\ gantt.config.view_mode \in DEFAULT_VIEW_MODES)
        => out = SnapTo(NumOfInt(opts.dx), NumOfInt(gantt.config.step.column_width))

\* C13: two calls of getSnapPosition with the same raw delta under the same
\* configuration return the same snapped delta, whatever the date of each
\* call.
C13_SnapIgnoresWallClock ==
    op = "getSnapPosition_again" => out2 = out

\* result is an integer multiple of width and at most half a width from dx
C14_NearestTo(result, dx, width) ==
    /\ IsFinite(result)
    /\ NumDiv(result, width).d = 1
    /\ NumLessEq(NumMul(NumOfInt(2), NumAbsDiff(result, dx)), width)

\* step 1 day, column width 45 and snap_at '1d'
C14_Scenario ==
    /\ gantt.config.view_mode.step = <<"1", "d">>
    /\ gantt.config.step.column_width = 45
    /\ DefaultSnap(gantt) = <<"1", "d">>

\* C14: getSnapPosition returns the multiple of the snap width
\* (snap duration / step duration) * column width nearest to the raw delta:
\* an integer multiple of the snap width, at most half a snap width away
\* from the raw delta; with step 1 day, column width 45 and snap_at '1d',
\* 22 gives 0 and 23 gives 45.
C14_SnapsToNearestMultiple ==
    (op = "getSnapPosition" /\ IsFinite(SnapPixels(gantt, opts.today))
        /\ SnapPixels(gantt, opts.today).n > 0)
        => /\ C14_NearestTo(out, NumOfInt(opts.dx), SnapPixels(gantt, opts.today))
           /\ (C14_Scenario /\ opts.dx = 22) => out = NumOfInt(0)
           /\ (C14_Scenario /\ opts.dx = 23) => out = NumOfInt(45)

C14_Witness ==
    /\ op = "getSnapPosition"
    /\ C14_Scenario
    /\ opts.dx = 23
    /\ out = NumOfInt(45)

----------------------------------------------------------------------------
(* C15, C16 *)

\* the ids in ids and the uids of the tasks that list one of them
C15_WithDependents(ids) ==
    ids \cup { tasks[i].uid : i \in { k \in 1 .. Len(tasks) :
                  \E j \in 1 .. Len(tasks[k].dependencies) :
                        tasks[k].dependencies[j] \in ids } }

\* the ids reached from ids in at most n steps of "is listed by"
RECURSIVE C15_Closure(_, _)
C15_Closure(ids, n) ==
    IF n = 0 THEN ids ELSE C15_WithDependents(C15_Closure(ids, n - 1))

\* C15: getAffectedTaskIds(taskId) returns, as a set, {taskId} without
\* move_dependencies, and {taskId} with every task that transitively
\* depends on taskId with it; for b depending on a and c depending on b,
\* {a, b, c} for a with the cascade.
C15_AffectedAreTransitiveDependents ==
    op = "getAffectedTaskIds"
        => Range(out.ids) = IF gantt.options.move_dependencies
                            THEN C15_Closure({opts.taskId}, Len(tasks))
                            ELSE {opts.taskId}

\* b depends on a, c depends on b, and the ids affected by a are asked for
C15_Chain ==
    /\ op = "getAffectedTaskIds"
    /\ Len(tasks) = 3
    /\ tasks[1].dependencies = <<>>
    /\ tasks[2].dependencies = <<TaskA>>
    /\ tasks[3].dependencies = <<TaskB>>
    /\ opts.taskId = TaskA

C15_Witness ==
    /\ C15_Chain
    /\ gantt.options.move_dependencies
    /\ Range(out.ids) = {TaskA, TaskB, TaskC}

NoDuplicates(list) ==
    \A i \in 1 .. Len(list) : \A j \in 1 .. Len(list) : list[i] = list[j] => i = j

\* C16: a traversal of the dependents reads the dependents of each task id
\* at most once, whatever the graph (cycles and self-dependencies included).
C16_ExpandsEachIdOnce ==
    op \in {"getAllDependentIds", "get_all_dependent_tasks"}
        => NoDuplicates(FilterBoolean(opts.expanded))

----------------------------------------------------------------------------
(* C17, C18, C19 *)

C17_ValidScale == viewport.columnWidth > 0 /\ viewport.stepInterval > 0

C18_DaysIn(end, g) ==
    Rat(end.d * (MS_PER_DAY \div g) + end.ms \div g, MS_PER_DAY \div g)

C18_Days(end) == C18_DaysIn(end, GCD(MS_PER_DAY, end.ms))

\* msPerPixel is the span of one step from epoch 0 over the column width:
\* the milliseconds of a day over the column width, times the days of the
\* step
C18_ScaleMatches ==
    viewport # Null
        => viewport.msPerPixel
            = NumMul(NumDiv(NumOfInt(MS_PER_DAY), NumOfInt(viewport.columnWidth)),
                     C18_Days(add(EpochZero, viewport.stepInterval, viewport.stepUnit)))

C18_ScaleKept ==
    /\ viewport'.columnWidth = viewport.columnWidth
    /\ viewport'.stepInterval = viewport.stepInterval
    /\ viewport'.stepUnit = viewport.stepUnit
    /\ viewport'.msPerPixel = viewport.msPerPixel

C18_Step ==
    /\ op' \in {"setOrigin", "shiftOrigin"} => C18_ScaleKept
    /\ op' = "setScale" => viewport'.origin = viewport.origin

\* C18: after the construction and after every setScale, setOrigin and
\* shiftOrigin, msPerPixel is (add(epoch 0, stepInterval, stepUnit) - epoch 0
\* in milliseconds) / columnWidth for the current settings; setOrigin and
\* shiftOrigin keep columnWidth, stepInterval, stepUnit and msPerPixel, and
\* setScale keeps the origin.
C18_ScaleFollowsSettings == [](C18_ScaleMatches) /\ [][C18_Step]_vars

\* the scale was changed to a step of a month after the origin was shifted
C18_Witness ==
    /\ op = "setScale"
    /\ viewport.stepUnit = "month"
    /\ viewport.origin \notin OriginSamples
    /\ viewport.msPerPixel = NumOfInt(31 * (MS_PER_DAY \div 120))

\* C19: an invalid or zero scale never takes effect: after the constructor
\* and after every setScale, msPerPixel is finite and greater than 0.
C19_ScaleIsFiniteAndPositive ==
    viewport # Null => IsFinite(viewport.msPerPixel) /\ viewport.msPerPixel.n > 0

----------------------------------------------------------------------------
(* C20 *)

\* C20: after any load or add, no stored task spans more than ten years:
\* diff(task.end, task.start, 'year') <= 10 for every task of the store.
C20_StoredSpansAtMostTenYears ==
    \A i \in 1 .. Len(tasks) : diff(tasks[i].end, tasks[i].start, "year") <= 1000

----------------------------------------------------------------------------
(* C27 *)

\* C27: the list returned by getAffectedTaskIds holds every task id at most
\* once, whatever the dependency graph (a task reached along several
\* dependency paths included).
C27_AffectedIdsAreDistinct ==
    op = "getAffectedTaskIds" => NoDuplicates(out.ids)

----------------------------------------------------------------------------
(* C30 *)

\* C30: shiftOrigin accumulates no drift: shiftOrigin(d) followed by
\* shiftOrigin(-d) restores the origin the viewport had before, exactly.
C30_ShiftBackRestoresOrigin ==
    op = "shiftOrigin_back" => viewport.origin = opts.origin

----------------------------------------------------------------------------
(* C22 *)

\* the days and the milliseconds of the first n counted parts, each count
\* times the length of its unit
RECURSIVE C22_SumDays(_, _)
C22_SumDays(counted, n) ==
    IF n = 0 THEN 0
    ELSE C22_SumDays(counted, n - 1) + counted[n].count * format_duration_ms(counted[n].unit).d

RECURSIVE C22_SumMs(_, _)
C22_SumMs(counted, n) ==
    IF n = 0 THEN 0
    ELSE C22_SumMs(counted, n - 1) + counted[n].count * format_duration_ms(counted[n].unit).ms

\* the position of a unit in year, month, day, hour, minute, second,
\* millisecond
C22_Rank(unit) ==
    CHOOSE k \in 1 .. 7 : format_duration_units(TRUE)[k] = unit

C22_Positive == op = "format_duration" /\ (opts.ms.d > 0 \/ opts.ms.ms > 0)

\* C22: format_duration(ms) of a positive ms emits non-zero counts only, of
\* years of 365 days, months of 30 days, days, hours, minutes, seconds and
\* milliseconds (never weeks), in descending unit order; with
\* showMilliseconds and no maxUnits the counts times the unit lengths sum to
\* ms exactly; with maxUnits = k at most k parts are emitted; 37 days are
\* written '1 month, 7 days'.
C22_GreedyDecomposition ==
    C22_Positive =>
        /\ \A i \in 1 .. Len(opts.counted) :
              /\ opts.counted[i].count > 0
              /\ opts.counted[i].unit \in Range(format_duration_units(TRUE))
              /\ i > 1 => C22_Rank(opts.counted[i - 1].unit) < C22_Rank(opts.counted[i].unit)
        /\ (opts.options.showMilliseconds /\ opts.options.maxUnits = 0)
              => /\ C22_SumDays(opts.counted, Len(opts.counted)) = opts.ms.d
                 /\ C22_SumMs(opts.counted, Len(opts.counted)) = opts.ms.ms
        /\ opts.options.maxUnits > 0 => Len(opts.counted) <= opts.options.maxUnits
        /\ argStr = formatPositiveOf(
                        [i \in 1 .. Len(opts.counted) |->
                            DurationPart(opts.counted[i].count, opts.counted[i].unit,
                                         opts.options.shortForm)],
                        opts.options)
        /\ (opts.ms = Milliseconds(37, 0) /\ ~opts.options.shortForm
                /\ opts.options.maxUnits = 0)
              => argStr = <<"1", " ">> \o Chars_month \o <<",", " ", "7", " ">>
                            \o Chars_day \o <<"s">>

\* 2 years, 1 month, 1 day and 1.5 hours written in full
C22_Witness ==
    /\ C22_Positive
    /\ opts.ms = Milliseconds(761, 5400000)
    /\ opts.options = FormatOptions(TRUE, 0, FALSE)
    /\ [i \in 1 .. Len(opts.counted) |-> opts.counted[i].count] = <<2, 1, 1, 1, 30>>
    /\ argStr = <<"2", " ">> \o Chars_year \o <<"s", ",", " ", "1", " ">> \o Chars_month
                    \o <<",", " ", "1", " ">> \o Chars_day
                    \o <<",", " ", "1", " ">> \o Chars_hour
                    \o <<",", " ", "3", "0", " ">> \o Chars_minute \o <<"s">>

----------------------------------------------------------------------------
(* C28, C29 *)

\* the uids of the tasks that list id as a dependency
C28_ListedBy(id) ==
    { tasks[i].uid : i \in { k \in 1 .. Len(tasks) :
          \E j \in 1 .. Len(tasks[k].dependencies) : tasks[k].dependencies[j] = id } }

\* C28: after any sequence of load, add, remove and update calls the id
\* index holds exactly the tasks of the list (get(t.uid) is t for every
\* listed task, every indexed task is listed), each task's _index is its
\* position in the list, and the dependents map is the inverse of the
\* tasks' dependency lists.
C28_StoreIsConsistent ==
    /\ \A i \in 1 .. Len(tasks) :
          /\ tasks[i].uid \in DOMAIN byId
          /\ byId[tasks[i].uid] = i
          /\ tasks[i].index = i - 1
          /\ \A j \in 1 .. Len(tasks[i].dependencies) :
                tasks[i].dependencies[j] \in DOMAIN dependents
    /\ \A uid \in DOMAIN byId :
          byId[uid] \in 1 .. Len(tasks) /\ tasks[byId[uid]].uid = uid
    /\ \A id \in DOMAIN dependents : dependents[id] = C28_ListedBy(id)

\* C29: every stored task has start <= end, after load and add and after
\* every update.
C29_StartNotAfterEnd ==
    \A i \in 1 .. Len(tasks) : InstantCompare(tasks[i].start, tasks[i].end) <= 0

----------------------------------------------------------------------------
(* C23 *)

\* the call is the last one logged for its task
C23_LastFor(k) == \A j \in k + 1 .. Len(calls) : calls[j].uid # calls[k].uid

\* C23: every commit of the gesture fired 'date_change' exactly when the new
\* start or the new end differed from the task's; when it fired, the task
\* holds the new start and end, and the event carries that task, the new
\* start and the new end less 1000 ms; when it did not, the task is as before.
C23_CommitFiresIffChanged ==
    \A k \in 1 .. Len(calls) :
        /\ calls[k].events # <<>>
              <=> (calls[k].before.start # calls[k].newStart
                     \/ calls[k].before.end # calls[k].newEnd)
        /\ calls[k].events # <<>> =>
              /\ Len(calls[k].events) = 1
              /\ calls[k].after.start = calls[k].newStart
              /\ calls[k].after.end = calls[k].newEnd
              /\ calls[k].events[1].name = "date_change"
              /\ calls[k].events[1].task = calls[k].after
              /\ calls[k].events[1].start = calls[k].newStart
              /\ calls[k].events[1].end = ShiftInstant(calls[k].newEnd, 0, -1000)
        /\ calls[k].events = <<>> => calls[k].after = calls[k].before
        /\ C23_LastFor(k) =>
              tasks[Bars_get(tasks, calls[k].uid, Len(tasks))] = calls[k].after

\* a resize that changed the end of the dragged task alone, and committed its
\* dependents without a change
C23_Witness ==
    /\ op = "mouseup"
    /\ \E k \in 1 .. Len(calls) :
          /\ calls[k].events # <<>>
          /\ calls[k].before.start = calls[k].newStart
          /\ calls[k].before.end # calls[k].newEnd
    /\ \E k \in 1 .. Len(calls) : calls[k].events = <<>>

----------------------------------------------------------------------------
(* C21 *)

\* C21: while no mousemove since the mousedown was more than 10 pixels away
\* from startX, the bars are where they were at the mousedown, nothing has
\* been committed, no event has fired and the tasks are unchanged.
C21_BelowThresholdIsClick ==
    (op \in {"mousedown", "mousemove", "mouseup"} /\ opts.gestures > 0 /\ opts.reach <= 10) =>
        /\ \A i \in 1 .. Len(bars) :
              /\ bars[i].x = opts.bars[i].x
              /\ bars[i].width = opts.bars[i].width
        /\ calls = <<>>
        /\ tasks = opts.tasks

\* a gesture that ended after moves of exactly 10 pixels, under a snap of a
\* quarter of a column
C21_Witness ==
    /\ op = "mouseup"
    /\ opts.gestures > 0
    /\ opts.moves > 0
    /\ opts.reach = 10
    /\ dragState = Null
    /\ gantt.options.snap_at = <<"6", "h">>

----------------------------------------------------------------------------
(* C25 *)

\* after a mouseup no gesture is in progress
C25_IdleAfterMouseUp == op = "mouseup" => (dragState = Null /\ dragging = "null")

\* no task is committed twice since the last mousedown
C25_AtMostOnce ==
    \A j \in 1 .. Len(calls), k \in 1 .. Len(calls) : calls[j].uid = calls[k].uid => j = k

\* a mousemove without a gesture in progress changes nothing
C25_LaterMove ==
    (op' = "mousemove" /\ dragState = Null)
        => UNCHANGED <<bars, tasks, calls, dragState, dragging>>

----------------------------------------------------------------------------
(* C24 *)

\* C24: after a mousemove of a 'move' gesture that is past the threshold, in
\* a chart that is not read-only, every affected bar is at its x of the
\* mousedown plus the snapped distance of the pointer from startX.
C24_NoDrift ==
    (op = "mousemove" /\ dragState # Null /\ dragState.dragging
        /\ dragState.type = "move"
        /\ ~gantt.options.readonly /\ ~gantt.options.readonly_dates) =>
        \A k \in 1 .. Len(dragState.bars) :
            bars[dragState.bars[k]].x =
                NumAdd(bars[dragState.bars[k]].ox,
                       getSnapPosition(NumOfInt(opts.currentX - dragState.startX),
                                       gantt, today))

----------------------------------------------------------------------------
(* C26 *)

\* the bar that the gesture in progress started on
C26_Dragged == bars[Bars_get(tasks, dragState.parentBarId, Len(tasks))]

\* C26: after a mousemove of a resize gesture past the threshold, the right
\* edge of the dragged bar ('resize-left') or its x ('resize-right') is where
\* it was at the mousedown.
C26_ResizeMovesOneEdge ==
    (op = "mousemove" /\ dragState # Null /\ dragState.dragging) =>
        /\ dragState.type = "resize-left" =>
              NumAdd(C26_Dragged.x, C26_Dragged.width)
                  = NumAdd(C26_Dragged.ox, C26_Dragged.owidth)
        /\ dragState.type = "resize-right" => C26_Dragged.x = C26_Dragged.ox

====
